---- MODULE Spec2Model ----
(***************************************************************************)
(* Streaming archive extraction of tdewolff-minify's downloader:           *)
(*   ChunkBuffer      (src/example/example.js)                             *)
(*   GenericReadable  (src/source/minifyDownloader/generic-readable.js)    *)
(*   TarExtractStream, ZipExtractStream                                    *)
(*                    (src/source/minifyDownloader/tar-extract-stream.js)  *)
(* A Buffer is a sequence of bytes (0..255).  Every await of the source is *)
(* a point where another callback of the event loop may run.               *)
(***************************************************************************)
EXTENDS Integers, Sequences, FiniteSets, TLC

VARIABLES cb, call, hist, wk, ws, src, chans, events, inf

vars == <<cb, call, hist, wk, ws, src, chans, events, inf>>
decoderVars == <<wk, ws, src, chans, events, inf>>

\* ------------------------------------------------------------------ bounds
\* SpecCB: bytes pushed in all, push calls, longest pushed chunk, giveBack
\* calls, largest sizeWanted.
MaxPushBytes == 3
MaxPushes == 2
MaxChunkLen == 2
MaxGiveBacks == 1
MaxWanted == 2

\* ------------------------------------------------------------- Buffer help
RECURSIVE Flat(_)
\* The bytes of a list of Buffers, in order.
Flat(chs) == IF chs = <<>> THEN <<>> ELSE Head(chs) \o Flat(Tail(chs))

RECURSIVE SumLen(_)
SumLen(chs) == IF chs = <<>> THEN 0 ELSE Len(Head(chs)) + SumLen(Tail(chs))

Zeros(n) == [i \in 1..n |-> 0]

\* buffer.subarray(start, end): indexes are 0-based, end exclusive, both
\* clamped to the buffer (negative indexes count from the end).
Clamp(i, len) == IF i < 0 THEN (IF len + i < 0 THEN 0 ELSE len + i)
                 ELSE IF i > len THEN len ELSE i
subarray(buf, start, end) ==
  LET s == Clamp(start, Len(buf))
      e == Clamp(end, Len(buf))
  IN IF e <= s THEN <<>> ELSE SubSeq(buf, s + 1, e)

\* Buffer.concat(list, totalLength): the list's bytes truncated, or padded
\* with zero bytes, to totalLength.
BufferConcat(list, totalLength) ==
  LET all == Flat(list)
  IN IF Len(all) >= totalLength THEN subarray(all, 0, totalLength)
     ELSE all \o Zeros(totalLength - Len(all))

\* ------------------------------------------------------------ ChunkBuffer
\* cb.chunks, cb.size, cb.waitPromise (a promise is set), cb.callbacks (write
\* acknowledgements held back), cb.immediate (acknowledgements handed to
\* setImmediate and not yet run).
NewChunkBuffer ==
  [chunks |-> <<>>, size |-> 0, waitPromise |-> TRUE, callbacks |-> 0,
   immediate |-> 0]

\* push(...chunks)
push(b, newChunks) ==
  [b EXCEPT !.chunks = @ \o newChunks,
            !.size = @ + SumLen(newChunks),
            !.waitPromise = FALSE]

\* giveBackLeftovers with the bytes taken from the front of the chunk.
giveBackLeftovers_front(chunk, k) ==
  subarray(chunk, 0, IF k # 0 THEN k ELSE Len(chunk))

\* giveBack(chunk, bytesAtEndToGiveBack)
giveBackLeftovers(chunk, k) ==
  subarray(chunk, IF k # 0 THEN Len(chunk) - k ELSE 0, Len(chunk))

giveBack(b, chunk, k) ==
  LET leftovers == giveBackLeftovers(chunk, k)
  IN [b EXCEPT !.chunks = <<leftovers>>,
               !.size = Len(leftovers),
               !.waitPromise = FALSE]

\* resolveCallbacks(): every held-back acknowledgement goes to setImmediate.
resolveCallbacks(b) ==
  [b EXCEPT !.immediate = @ + b.callbacks, !.callbacks = 0]

\* cleanup()
cleanup(b) == resolveCallbacks([b EXCEPT !.chunks = <<>>, !.size = 0])

\* consumeTake with the leftovers cut one byte too late.
consumeTake_lateCut(b, sizeWanted) ==
  IF sizeWanted # 0 /\ sizeWanted # b.size
  THEN IF b.size > sizeWanted
       THEN LET buffer == BufferConcat(b.chunks, b.size)
                leftovers == subarray(buffer, sizeWanted + 1, Len(buffer))
            IN [got |-> TRUE, buf |-> subarray(buffer, 0, sizeWanted),
                cb |-> [b EXCEPT !.chunks = <<leftovers>>,
                                 !.size = Len(leftovers)]]
       ELSE [got |-> FALSE, buf |-> <<>>, cb |-> b]
  ELSE IF b.size # 0
       THEN [got |-> TRUE, buf |-> BufferConcat(b.chunks, b.size),
             cb |-> [b EXCEPT !.chunks = <<>>, !.size = 0]]
       ELSE [got |-> FALSE, buf |-> <<>>, cb |-> b]

\* consumeTake that returns what is buffered when it is less than wanted.
consumeTake_short(b, sizeWanted) ==
  IF b.size # 0
  THEN LET buffer == BufferConcat(b.chunks, b.size)
           leftovers == subarray(buffer, sizeWanted, Len(buffer))
       IN IF sizeWanted # 0 /\ b.size > sizeWanted
          THEN [got |-> TRUE, buf |-> subarray(buffer, 0, sizeWanted),
                cb |-> [b EXCEPT !.chunks = <<leftovers>>,
                                 !.size = Len(leftovers)]]
          ELSE [got |-> TRUE, buf |-> buffer,
                cb |-> [b EXCEPT !.chunks = <<>>, !.size = 0]]
  ELSE [got |-> FALSE, buf |-> <<>>, cb |-> b]

\* The synchronous head of consume(sizeWanted): the buffer it can return at
\* once (got), and the ChunkBuffer it leaves.
consumeTake(b, sizeWanted) ==
  IF sizeWanted # 0 /\ sizeWanted # b.size
  THEN IF b.size > sizeWanted
       THEN LET buffer == BufferConcat(b.chunks, b.size)
                leftovers == subarray(buffer, sizeWanted, Len(buffer))
            IN [got |-> TRUE, buf |-> subarray(buffer, 0, sizeWanted),
                cb |-> [b EXCEPT !.chunks = <<leftovers>>,
                                 !.size = Len(leftovers)]]
       ELSE [got |-> FALSE, buf |-> <<>>, cb |-> b]
  ELSE IF b.size # 0
       THEN [got |-> TRUE, buf |-> BufferConcat(b.chunks, b.size),
             cb |-> [b EXCEPT !.chunks = <<>>, !.size = 0]]
       ELSE [got |-> FALSE, buf |-> <<>>, cb |-> b]

\* _waitForMore up to its await: a promise is set if there is none, the
\* held-back acknowledgements are released.
waitForMore(b) == resolveCallbacks([b EXCEPT !.waitPromise = TRUE])

\* One consume call of the single caller.  st: "idle" no call; "start" called,
\* nothing run yet; "wait" suspended in _waitForMore; "woken" its promise was
\* resolved; "timedout" the timer won the race.  inner: the call is the
\* recursive consume(sizeWanted) of line 311, which has no throwOnTimeout;
\* asked: the throwOnTimeout the caller passed.
IdleCall ==
  [st |-> "idle", n |-> 0, thr |-> FALSE, inner |-> FALSE, asked |-> FALSE]
StartCall(n, thr) ==
  [st |-> "start", n |-> n, thr |-> thr, inner |-> FALSE, asked |-> thr]

\* consume that never throws on a timeout.
consume_silent(b, c) ==
  LET try == consumeTake(b, c.n)
      suspend(inner, thr) ==
        [kind |-> "wait", buf |-> <<>>, cb |-> waitForMore(b),
         call |-> [c EXCEPT !.st = "wait", !.inner = inner, !.thr = thr]]
      done(t) == [kind |-> "ret", buf |-> t.buf, cb |-> t.cb, call |-> IdleCall]
  IN CASE c.st = "start" ->
            IF try.got THEN done(try) ELSE suspend(FALSE, c.thr)
       [] c.st = "woken" ->
            IF b.size < c.n THEN suspend(c.inner, c.thr)
            ELSE IF try.got THEN done(try) ELSE suspend(TRUE, FALSE)
       [] c.st = "timedout" ->
            [kind |-> "false", buf |-> <<>>,
             cb |-> b, call |-> IdleCall]

\* consume, run from where call c stands until it returns, throws or suspends.
\* kind: "ret" (buf), "false" (the timeout sentinel), "throw", "wait".
consume(b, c) ==
  LET try == consumeTake(b, c.n)
      suspend(inner, thr) ==
        [kind |-> "wait", buf |-> <<>>, cb |-> waitForMore(b),
         call |-> [c EXCEPT !.st = "wait", !.inner = inner, !.thr = thr]]
      done(t) == [kind |-> "ret", buf |-> t.buf, cb |-> t.cb, call |-> IdleCall]
  IN CASE c.st = "start" ->
            IF try.got THEN done(try) ELSE suspend(FALSE, c.thr)
       [] c.st = "woken" ->
            IF b.size < c.n THEN suspend(c.inner, c.thr)
            ELSE IF try.got THEN done(try) ELSE suspend(TRUE, FALSE)
       [] c.st = "timedout" ->
            [kind |-> IF c.thr THEN "throw" ELSE "false", buf |-> <<>>,
             cb |-> b, call |-> IdleCall]

\* Wake that leaves the caller suspended.
Wake_none(c) == c

\* A push or giveBack resolves the promise the caller is suspended on.
Wake(c) == IF c.st = "wait" THEN [c EXCEPT !.st = "woken"] ELSE c

\* ------------------------------------------------------- Tar header parse
BlockSize == 512

\* A header value: null, a number, NaN or a text (kept as its bytes: a text
\* field holds no byte above 127, so UTF-8 decoding maps byte to character).
Null == [t |-> "null", n |-> 0, s |-> <<>>]
Num(n) == [t |-> "num", n |-> n, s |-> <<>>]
NaN == [t |-> "nan", n |-> 0, s |-> <<>>]
Str(s) == [t |-> "str", n |-> 0, s |-> s]
\* A binary field beyond TLC's integers is kept as its 8 bytes.
Big(s) == [t |-> "big", n |-> 0, s |-> s]
Thrown == [t |-> "throw", n |-> 0, s |-> <<>>]

IsSpace(c) == c \in {9, 10, 11, 12, 13, 32}
IsOctalDigit(c) == c >= 48 /\ c <= 55

RECURSIVE OctalDigits(_, _, _)
\* The value of the longest run of octal digits of text from index i on,
\* after acc; -1 when there is none.
OctalDigits(text, i, acc) ==
  IF i > Len(text) \/ ~IsOctalDigit(text[i]) THEN acc
  ELSE OctalDigits(text, i + 1, (IF acc < 0 THEN 0 ELSE acc) * 8 + (text[i] - 48))

RECURSIVE SkipSpace(_, _)
SkipSpace(text, i) ==
  IF i <= Len(text) /\ IsSpace(text[i]) THEN SkipSpace(text, i + 1) ELSE i

\* parseInt(text, 8)
parseInt8(text) ==
  LET i == SkipSpace(text, 1)
      neg == i <= Len(text) /\ text[i] = 45
      j == IF i <= Len(text) /\ text[i] \in {43, 45} THEN i + 1 ELSE i
      v == OctalDigits(text, j, -1)
  IN IF v < 0 THEN NaN ELSE Num(IF neg THEN 0 - v ELSE v)

RECURSIVE BigEndian(_, _)
BigEndian(bytes, acc) ==
  IF bytes = <<>> THEN acc ELSE BigEndian(Tail(bytes), acc * 256 + Head(bytes))

\* readBinary without the check against Number.MAX_SAFE_INTEGER.
readBinary_unchecked(buffer, at) ==
  LET b == SubSeq(buffer, at + 1, at + 8)
  IN IF b[1] # 0 \/ b[2] # 0 \/ b[3] # 0 \/ b[4] # 0 \/ b[5] >= 128 THEN Big(b)
     ELSE Num(BigEndian(SubSeq(b, 5, 8), 0))

\* buffer.readBigUInt64BE(at) checked against Number.MAX_SAFE_INTEGER
\* (2^53 - 1): a value above it throws.
readBinary(buffer, at) ==
  LET b == SubSeq(buffer, at + 1, at + 8)
  IN IF b[1] # 0 \/ b[2] >= 32 THEN Thrown
     ELSE IF b[2] # 0 \/ b[3] # 0 \/ b[4] # 0 \/ b[5] >= 128 THEN Big(b)
     ELSE Num(BigEndian(SubSeq(b, 5, 8), 0))

\* entry(size, isOctal) of _parseHeader, reading at offset.
entry(buffer, offset, size, isOctal) ==
  LET stops == {i \in 0..(size - 1) :
                  buffer[offset + i + 1] = 0 \/ buffer[offset + i + 1] >= 128}
      strSize == IF stops = {} THEN size
                 ELSE CHOOSE i \in stops : \A j \in stops : i <= j
      binary == stops # {} /\ buffer[offset + strSize + 1] >= 128
      text == SubSeq(buffer, offset + 1, offset + strSize)
  IN IF binary
     THEN IF size * 8 < 64 THEN Thrown ELSE readBinary(buffer, offset + size - 8)
     ELSE IF strSize = 0 THEN Null
     ELSE IF isOctal THEN parseInt8(text) ELSE Str(text)

\* The header fields in record order: name, offset, size, isOctal.
HeaderFields ==
  << <<"name", 0, 100, FALSE>>, <<"mode", 100, 8, TRUE>>,
     <<"uid", 108, 8, TRUE>>, <<"gid", 116, 8, TRUE>>,
     <<"size", 124, 12, TRUE>>, <<"mtime", 136, 12, TRUE>>,
     <<"checksum", 148, 8, FALSE>>, <<"typeflag", 156, 1, FALSE>>,
     <<"linkname", 157, 100, FALSE>>, <<"magic", 257, 6, FALSE>>,
     <<"version", 263, 2, FALSE>>, <<"uname", 265, 32, FALSE>>,
     <<"gname", 297, 32, FALSE>>, <<"devmajor", 329, 8, TRUE>>,
     <<"devminor", 337, 8, TRUE>>, <<"prefix", 345, 155, FALSE>> >>

FieldNames == {HeaderFields[i][1] : i \in 1..Len(HeaderFields)}
FieldOf(name) == CHOOSE i \in 1..Len(HeaderFields) : HeaderFields[i][1] = name

\* The header object of _parseHeader for one 512-byte record: its 16 fields;
\* "end" when every field came out null (allZero), "throw" when a field threw.
parseHeader(buffer) ==
  LET val(name) == LET f == HeaderFields[FieldOf(name)]
                   IN entry(buffer, f[2], f[3], f[4])
      h == [name \in FieldNames |-> val(name)]
  IN IF \E name \in FieldNames : h[name].t = "throw" THEN [kind |-> "throw", h |-> h]
     ELSE IF \A name \in FieldNames : h[name].t = "null" THEN [kind |-> "end", h |-> h]
     ELSE [kind |-> "header", h |-> h]

\* Math.ceil(size/512) * 512 for a header's size (null counts as 0; NaN
\* gives NaN, which ends the while loop like 0).
AlignedSize(size) ==
  IF size.t = "num" /\ size.n > 0
  THEN ((size.n + BlockSize - 1) \div BlockSize) * BlockSize
  ELSE 0

\* buffer == false, the timeout test of _pipeFileStream, _parseHeader and
\* _parsePaxEntries: false for false itself; a Buffer is compared through its
\* text, which equals false when Number(text) is 0: after trimming white
\* space the text is empty or a numeral of zeros (an optional sign, zeros,
\* at most one point; other spellings of zero are left out).
equalsFalse(buffer) ==
  LET lo == SkipSpace(buffer, 1)
      from == IF buffer[lo] \in {43, 45} THEN lo + 1 ELSE lo
      ink == {i \in from..Len(buffer) : ~IsSpace(buffer[i])}
      hi == CHOOSE i \in ink : \A j \in ink : i >= j
  IN \/ lo > Len(buffer)
     \/ /\ from <= Len(buffer)
        /\ buffer[from] \in {46, 48}
        /\ \A i \in from..hi : buffer[i] \in {46, 48}
        /\ \E i \in from..hi : buffer[i] = 48
        /\ Cardinality({i \in from..hi : buffer[i] = 46}) <= 1

\* ---------------------------------------------------------- Tar PAX entries
\* text.indexOf(c): zero-based, -1 when absent.
indexOf(text, c) ==
  LET at == {i \in 1..Len(text) : text[i] = c}
  IN IF at = {} THEN 0 - 1 ELSE (CHOOSE i \in at : \A j \in at : i <= j) - 1

ClampText(i, len) == IF i < 0 THEN 0 ELSE IF i > len THEN len ELSE i

\* text.substring(from, to): both clamped into the text, swapped when
\* from > to.
substring(text, from, to) ==
  LET f == ClampText(from, Len(text))
      t == ClampText(to, Len(text))
  IN IF f <= t THEN SubSeq(text, f + 1, t) ELSE SubSeq(text, t + 1, f)

RECURSIVE splitText(_, _)
\* text.splitText(sep)
splitText(text, sep) ==
  LET at == indexOf(text, sep)
  IN IF at < 0 THEN <<text>>
     ELSE <<SubSeq(text, 1, at)>> \o splitText(SubSeq(text, at + 2, Len(text)), sep)

\* An object with text keys: a function from keys to values.
NoEntries == [k \in {} |-> <<>>]
Put(obj, key, value) ==
  [k \in DOMAIN obj \cup {key} |-> IF k = key THEN value ELSE obj[k]]
\* {...obj, ...over}
Spread(obj, over) ==
  [k \in DOMAIN obj \cup DOMAIN over |-> IF k \in DOMAIN over THEN over[k] ELSE obj[k]]

RECURSIVE paxLines(_, _)
\* Lines 162-171: each line's key is line.substring(a, b), from the first
\* space (the space included) to the first '=', and its value what follows
\* the '='.
paxLines(lines, paxEntries) ==
  IF lines = <<>> THEN paxEntries
  ELSE LET line == Head(lines)
           a == indexOf(line, 32)
           b == indexOf(line, 61)
           key == substring(line, a, b)
           value == substring(line, b + 1, Len(line))
       IN paxLines(Tail(lines), Put(paxEntries, key, value))

\* _parsePaxEntries on the consumed buffer (lines 159-172).
parsePaxEntries(buffer, size) ==
  paxLines(splitText(subarray(buffer, 0, size), 10), NoEntries)

\* The header fields' names as text.
FieldKey(name) ==
  CASE name = "name" -> <<110, 97, 109, 101>>
    [] name = "mode" -> <<109, 111, 100, 101>>
    [] name = "uid" -> <<117, 105, 100>>
    [] name = "gid" -> <<103, 105, 100>>
    [] name = "size" -> <<115, 105, 122, 101>>
    [] name = "mtime" -> <<109, 116, 105, 109, 101>>
    [] name = "checksum" -> <<99, 104, 101, 99, 107, 115, 117, 109>>
    [] name = "typeflag" -> <<116, 121, 112, 101, 102, 108, 97, 103>>
    [] name = "linkname" -> <<108, 105, 110, 107, 110, 97, 109, 101>>
    [] name = "magic" -> <<109, 97, 103, 105, 99>>
    [] name = "version" -> <<118, 101, 114, 115, 105, 111, 110>>
    [] name = "uname" -> <<117, 110, 97, 109, 101>>
    [] name = "gname" -> <<103, 110, 97, 109, 101>>
    [] name = "devmajor" -> <<100, 101, 118, 109, 97, 106, 111, 114>>
    [] name = "devminor" -> <<100, 101, 118, 109, 105, 110, 111, 114>>
    [] name = "prefix" -> <<112, 114, 101, 102, 105, 120>>

\* {...header, ...entries} on the 16 fields: an entry whose key is a field's
\* name replaces the field by its text.
spreadOver(h, entries) ==
  [name \in FieldNames |->
     IF FieldKey(name) \in DOMAIN entries THEN Str(entries[FieldKey(name)])
     ELSE h[name]]

\* The fields of {...null}: every one absent.
NoHeader == [name \in FieldNames |-> Null]

RECURSIVE Decimal(_, _)
Decimal(text, acc) ==
  IF text = <<>> THEN acc ELSE Decimal(Tail(text), acc * 10 + (Head(text) - 48))

\* A header's size as the number the arithmetic of _pipeFileStream and
\* _parsePaxEntries makes of it: a text of decimal digits counts as its
\* number, the empty text as 0, any other text as NaN.
ToNumber(v) ==
  IF v.t # "str" THEN v
  ELSE IF \A i \in 1..Len(v.s) : v.s[i] >= 48 /\ v.s[i] <= 57
       THEN Num(Decimal(v.s, 0))
       ELSE NaN

\* --------------------------------------------------------- Tar test streams
Pad(bytes, n) == bytes \o Zeros(n - Len(bytes))

RECURSIVE Octal(_, _)
\* n as d octal digits (ASCII).
Octal(n, d) == IF d = 0 THEN <<>> ELSE Octal(n \div 8, d - 1) \o <<48 + (n % 8)>>

\* A ustar header record.
TarRecord(name, size, typeflag, linkname) ==
  Pad(name, 100) \o Octal(420, 7) \o <<0>> \o Octal(0, 7) \o <<0>>
  \o Octal(0, 7) \o <<0>> \o Octal(size, 11) \o <<0>> \o Octal(0, 11) \o <<0>>
  \o Octal(0, 6) \o <<0, 32>> \o <<typeflag>> \o Pad(linkname, 100)
  \o <<117, 115, 116, 97, 114, 0>> \o <<48, 48>> \o Zeros(32) \o Zeros(32)
  \o Octal(0, 7) \o <<0>> \o Octal(0, 7) \o <<0>> \o Zeros(155) \o Zeros(12)

\* An entry's body padded to whole records.
TarPadded(bytes) ==
  Pad(bytes, ((Len(bytes) + BlockSize - 1) \div BlockSize) * BlockSize)

\* "hello.txt" and "hi there\n"
HelloName == <<104, 101, 108, 108, 111, 46, 116, 120, 116>>
HelloBody == <<104, 105, 32, 116, 104, 101, 114, 101, 10>>
Payload(n) == [i \in 1..n |-> 1 + (i % 250)]

\* The entries of the test archives: name, body, typeflag, linkname.
File(name, body) == [name |-> name, body |-> body, typeflag |-> 48, linkname |-> <<>>]
Link(name, to) == [name |-> name, body |-> <<>>, typeflag |-> 49, linkname |-> to]
\* Extended PAX entries (typeflag 'x'), which apply to the entry behind them.
Pax(text) == [name |-> <<120>>, body |-> text, typeflag |-> 120, linkname |-> <<>>]

\* "9 path=e\n"
PaxPath == <<57, 32, 112, 97, 116, 104, 61, 101, 10>>

TarArchives ==
  << << File(HelloName, HelloBody) >>,
     << File(<<97>>, Payload(3)), Link(<<98>>, <<97>>), File(<<99>>, <<>>) >>,
     << File(<<100>>, Payload(521)) >>,
     << Pax(PaxPath), File(<<102>>, Payload(3)) >>,
     << Pax(PaxPath) >> >>

RECURSIVE DecimalText(_)
\* n in decimal digits (ASCII).
DecimalText(n) ==
  IF n < 10 THEN <<48 + n>> ELSE DecimalText(n \div 10) \o <<48 + (n % 10)>>

\* One PAX record "length key=value\n", the length counting the whole record,
\* its own digits included (records of less than 100 bytes).
PaxRecord(key, value) ==
  LET rest == Len(key) + Len(value) + 3
      length == IF rest + 1 < 10 THEN rest + 1 ELSE rest + 2
  IN DecimalText(length) \o <<32>> \o key \o <<61>> \o value \o <<10>>

RECURSIVE PaxText(_)
\* The body of a PAX entry with the records <<key, value>>.
PaxText(records) ==
  IF records = <<>> THEN <<>>
  ELSE PaxRecord(Head(records)[1], Head(records)[2]) \o PaxText(Tail(records))

\* PAX entries of typeflag 'g' (103) or 'x' (120) with the given records.
PaxEntries(typeflag, records) ==
  [name |-> <<typeflag>>, body |-> PaxText(records), typeflag |-> typeflag,
   linkname |-> <<>>, records |-> records]

\* A record given byte by byte.
Raw(record) ==
  [name |-> <<>>, body |-> <<>>, typeflag |-> 0, linkname |-> <<>>,
   raw |-> record]

\* "uname", "gname"
UnameKey == <<117, 110, 97, 109, 101>>
GnameKey == <<103, 110, 97, 109, 101>>

\* A record whose only non-zero byte is the second of the name field.
NearlyZero == [i \in 1..BlockSize |-> IF i = 2 THEN 97 ELSE 0]

\* Archives decoded record by record (SpecRecords).  1: global PAX entries
\* (uname=g, gname=h), file "a", per-entry PAX entries (uname=x), file "b",
\* file "c".  2: file "a", a record that is not all zero, file "b".
RecordArchives ==
  << << PaxEntries(103, << <<UnameKey, <<103>> >>, <<GnameKey, <<104>> >> >>),
        File(<<97>>, Payload(3)),
        PaxEntries(120, << <<UnameKey, <<120>> >> >>),
        File(<<98>>, <<>>),
        File(<<99>>, <<>>) >>,
     << File(<<97>>, Payload(3)), Raw(NearlyZero), File(<<98>>, <<>>) >> >>

\* Every test archive; those of RecordArchives come after TarArchives.
AllTarArchives == TarArchives \o RecordArchives

RECURSIVE TarEntries(_)
TarEntries(es) ==
  IF es = <<>> THEN <<>>
  ELSE LET e == Head(es)
       IN (IF "raw" \in DOMAIN e THEN e.raw
           ELSE TarRecord(e.name, Len(e.body), e.typeflag, e.linkname)
                \o TarPadded(e.body))
          \o TarEntries(Tail(es))

\* The archive's bytes: its entries and one all-zero record.
TarStream(a) == TarEntries(AllTarArchives[a]) \o Zeros(BlockSize)

\* ------------------------------------------------------------ Zip records
localFileHeaderSignature == 1347093252
centralDirectoryFileHeaderSignature == 1347092738
dataDescriptorSignature == 1347094280

RECURSIVE LittleEndian(_)
LittleEndian(bytes) ==
  IF bytes = <<>> THEN 0 ELSE Head(bytes) + 256 * LittleEndian(Tail(bytes))

\* The largest number the readers below give: a value of 2^31 or more is read
\* as this one.  The signatures are all smaller, so every comparison the code
\* makes with a value read keeps its outcome.
Huge == 2147483647

\* buffer.readUInt32BE(offset)
readUInt32BE(buffer, offset) ==
  IF buffer[offset + 1] >= 128 THEN Huge
  ELSE BigEndian(SubSeq(buffer, offset + 1, offset + 4), 0)

\* buffer.readUInt8 / readUInt16LE / readUInt32LE / readBigUInt64LE(offset),
\* for size 1, 2, 4, 8.
readUIntLE(buffer, offset, size) ==
  LET b == SubSeq(buffer, offset + 1, offset + size)
  IN IF \E i \in 4..size : IF i = 4 THEN b[i] >= 128 ELSE b[i] # 0
     THEN Huge
     ELSE LittleEndian(SubSeq(b, 1, IF size > 4 THEN 4 ELSE size))

RECURSIVE BitOffset(_, _)
\* The index of the first bit of field i of a bit-field template.
BitOffset(template, i) ==
  IF i = 1 THEN 0 ELSE BitOffset(template, i - 1) + template[i - 1][2]

\* readBitField(fromValue, template): the fields are read from the least
\* significant bit on, each as wide as its template entry says.
readBitField(fromValue, template) ==
  [name \in {template[i][1] : i \in DOMAIN template} |->
     LET i == CHOOSE j \in DOMAIN template : template[j][1] = name
     IN (fromValue \div (2 ^ BitOffset(template, i))) % (2 ^ template[i][2])]

\* The general purpose flags of a local file header (lines 287-298).
FlagsTemplate ==
  << <<"encrypted", 1>>, <<"compressionOption", 2>>, <<"dataDescriptor", 1>>,
     <<"enhancedDeflation", 1>>, <<"compressedPatchedData", 1>>,
     <<"strongEncryption", 1>>, <<"unused", 4>>, <<"languageEncoding", 1>>,
     <<"reserved", 1>>, <<"maskedHeaderValues", 1>> >>

\* The UT extra field's flag byte (lines 328-332).
TimeTemplate ==
  << <<"mTimeIsPresent", 1>>, <<"aTimeIsPresent", 1>>, <<"cTimeIsPresent", 1>> >>

\* Lines 284-310 of _parseLocalFileHeader: the 26 bytes after the signature.
\* The fields the extra fields may add start as 0 (undefined).
rawHeaderOf(buffer) ==
  readBitField(readUIntLE(buffer, 2, 2), FlagsTemplate) @@
  [version |-> readUIntLE(buffer, 0, 2),
   compression |-> readUIntLE(buffer, 4, 2),
   mtime |-> readUIntLE(buffer, 6, 2),
   mdate |-> readUIntLE(buffer, 8, 2),
   crc32 |-> readUIntLE(buffer, 10, 4),
   compressedSize |-> readUIntLE(buffer, 14, 4),
   uncompressedSize |-> readUIntLE(buffer, 18, 4),
   nameLength |-> readUIntLE(buffer, 22, 2),
   extraFieldsTotalSize |-> readUIntLE(buffer, 24, 2),
   name |-> <<>>,
   headerRecordOffset |-> 0, diskNumber |-> 0,
   lastModificationUnixtime |-> 0, lastAccessUnixtime |-> 0,
   creationUnixtime |-> 0]

RECURSIVE extraFields(_, _, _)
\* Lines 315-338: the extra fields of buffer from offset on; ok is FALSE when
\* a read goes beyond the buffer (RangeError).
extraFields(buffer, offset, raw) ==
  LET fits(n) == offset + n <= Len(buffer)
      fieldSignature == readUIntLE(buffer, offset, 2)
      fieldSize == readUIntLE(buffer, offset + 2, 2)
      at == offset + 4
      flag == readBitField(readUIntLE(buffer, at, 1), TimeTemplate)
      m == IF flag.mTimeIsPresent = 1 THEN 4 ELSE 0
      a == IF flag.aTimeIsPresent = 1 THEN 4 ELSE 0
      c == IF flag.cTimeIsPresent = 1 THEN 4 ELSE 0
      more == (IF fieldSize >= 24 THEN 8 ELSE 0) + (IF fieldSize >= 28 THEN 4 ELSE 0)
  IN IF offset >= Len(buffer) THEN [ok |-> TRUE, raw |-> raw]
     ELSE IF ~fits(4) THEN [ok |-> FALSE, raw |-> raw]
     ELSE CASE fieldSignature = 1 ->
            IF ~fits(20 + more) THEN [ok |-> FALSE, raw |-> raw]
            ELSE extraFields(buffer, at + 16 + more,
                   [raw EXCEPT
                      !.uncompressedSize = readUIntLE(buffer, at, 8),
                      !.compressedSize = readUIntLE(buffer, at + 8, 8),
                      !.headerRecordOffset =
                         IF fieldSize >= 24 THEN readUIntLE(buffer, at + 16, 8)
                         ELSE @,
                      !.diskNumber =
                         IF fieldSize >= 28 THEN readUIntLE(buffer, at + 24, 4)
                         ELSE @])
          [] fieldSignature = 21589 ->
            IF ~fits(5) \/ ~fits(5 + m + a + c) THEN [ok |-> FALSE, raw |-> raw]
            ELSE extraFields(buffer, at + 1 + m + a + c,
                   [raw EXCEPT
                      !.lastModificationUnixtime =
                         IF m # 0 THEN readUIntLE(buffer, at + 1, 4) ELSE @,
                      !.lastAccessUnixtime =
                         IF a # 0 THEN readUIntLE(buffer, at + 1 + m, 4) ELSE @,
                      !.creationUnixtime =
                         IF c # 0 THEN readUIntLE(buffer, at + 1 + m + a, 4)
                         ELSE @])
          [] OTHER -> extraFields(buffer, at + fieldSize, raw)

\* Lines 491-505: the data descriptor in the 16 bytes read for it.
dataDescriptorOf(buffer) ==
  LET at == IF readUInt32BE(buffer, 0) = dataDescriptorSignature THEN 4 ELSE 0
  IN [crc32 |-> readUIntLE(buffer, at, 4),
      compressedSize |-> readUIntLE(buffer, at + 4, 4),
      uncompressedSize |-> readUIntLE(buffer, at + 8, 4)]

\* ------------------------------------------------------ createInflateRaw
\* inf: the raw inflate stream of the entry at hand, for deflate streams made
\* of stored blocks.  hdr: the bytes of the block header read so far; left:
\* the bytes of the block still to copy; final: it is the last block; done:
\* the deflate stream is complete; err: it is invalid; fed: the bytes written
\* to the stream; bytesWritten: the bytes it has processed; ended: it has
\* pushed null; resolved / result: endPromise and what it was resolved with.
NewInflate ==
  [hdr |-> <<>>, left |-> 0, final |-> FALSE, done |-> FALSE, err |-> FALSE,
   fed |-> 0, bytesWritten |-> 0, ended |-> FALSE, resolved |-> FALSE,
   result |-> <<0, 0>>]

RECURSIVE inflateBytes(_, _, _, _)
\* zlib's inflate on input from byte i on: the bytes it puts out and the
\* number of bytes it takes; it takes none once the stream is complete.
inflateBytes(z, input, i, out) ==
  IF i > Len(input) \/ z.done \/ z.err
  THEN [z |-> z, out |-> out, used |-> i - 1]
  ELSE IF z.left > 0
  THEN inflateBytes([z EXCEPT !.left = @ - 1,
                              !.done = (z.left = 1 /\ z.final)],
                    input, i + 1, Append(out, input[i]))
  ELSE LET h == Append(z.hdr, input[i])
           len == h[2] + 256 * h[3]
           nlen == h[4] + 256 * h[5]
           final == h[1] % 2 = 1
       IN IF Len(h) = 1 /\ (h[1] \div 2) % 4 # 0
          THEN inflateBytes([z EXCEPT !.err = TRUE], input, i + 1, out)
          ELSE IF Len(h) < 5
          THEN inflateBytes([z EXCEPT !.hdr = h], input, i + 1, out)
          ELSE IF len + nlen # 65535
          THEN inflateBytes([z EXCEPT !.err = TRUE], input, i + 1, out)
          ELSE inflateBytes([z EXCEPT !.hdr = <<>>, !.left = len,
                                      !.final = final,
                                      !.done = (final /\ len = 0)],
                            input, i + 1, out)

\* inflate.write(chunk) as the stream has processed it: bytesWritten grows by
\* what zlib took, and input left over makes the stream push null.
inflateWrite(z, chunk) ==
  LET r == inflateBytes(z, chunk, 1, <<>>)
  IN [z |-> [r.z EXCEPT !.fed = @ + Len(chunk),
                        !.bytesWritten = @ + r.used,
                        !.ended = @ \/ (~r.z.err /\ r.used < Len(chunk))],
      out |-> r.out]

\* --------------------------------------------------------- Zip test streams
RECURSIVE LE(_, _)
\* n as size bytes, least significant first.
LE(n, size) == IF size = 0 THEN <<>> ELSE <<n % 256>> \o LE(n \div 256, size - 1)

\* A stored deflate block.
Stored(content, final) ==
  <<IF final THEN 1 ELSE 0>> \o LE(Len(content), 2)
  \o LE(65535 - Len(content), 2) \o content

\* content as a raw deflate stream of two stored blocks.
Deflated(content) ==
  Stored(SubSeq(content, 1, 1), FALSE)
  \o Stored(SubSeq(content, 2, Len(content)), TRUE)

\* The entries of the test archives.  known: the sizes are in the local file
\* header and no data descriptor follows; signed: the data descriptor has its
\* signature; extra: the extra fields.
Known(name, content, crc) ==
  [name |-> name, content |-> content, crc |-> crc, known |-> TRUE,
   signed |-> FALSE, extra |-> <<>>]
Unknown(name, content, crc, signed, extra) ==
  [name |-> name, content |-> content, crc |-> crc, known |-> FALSE,
   signed |-> signed, extra |-> extra]

\* A UT extra field with the modification time t.
UnixTime(t) == LE(21589, 2) \o LE(5, 2) \o <<1>> \o LE(t, 4)

ZipArchives ==
  << << Unknown(<<97>>, <<7, 8, 9>>, 66051, TRUE, <<>>) >>,
     << Unknown(<<98>>, <<7, 8, 9>>, 66051, FALSE, <<>>),
        Unknown(<<99>>, <<5>>, 258, TRUE, UnixTime(1000)) >>,
     << Known(<<97>>, <<7, 8, 9>>, 66051) >> >>

LocalFileHeader(e) ==
  <<80, 75, 3, 4>> \o LE(20, 2) \o LE(IF e.known THEN 0 ELSE 8, 2) \o LE(8, 2)
  \o LE(0, 2) \o LE(33, 2)
  \o LE(IF e.known THEN e.crc ELSE 0, 4)
  \o LE(IF e.known THEN Len(Deflated(e.content)) ELSE 0, 4)
  \o LE(IF e.known THEN Len(e.content) ELSE 0, 4)
  \o LE(Len(e.name), 2) \o LE(Len(e.extra), 2) \o e.name \o e.extra

\* What an entry's data descriptor says.
DescriptorFields(e) ==
  [crc32 |-> e.crc, compressedSize |-> Len(Deflated(e.content)),
   uncompressedSize |-> Len(e.content)]

DataDescriptor(e) ==
  (IF e.signed THEN <<80, 75, 7, 8>> ELSE <<>>)
  \o LE(e.crc, 4) \o LE(Len(Deflated(e.content)), 4) \o LE(Len(e.content), 4)

ZipRecord(e) ==
  LocalFileHeader(e) \o Deflated(e.content)
  \o (IF e.known THEN <<>> ELSE DataDescriptor(e))

RECURSIVE ZipRecords(_)
ZipRecords(es) ==
  IF es = <<>> THEN <<>> ELSE ZipRecord(Head(es)) \o ZipRecords(Tail(es))

\* The start of the central directory: the signature of its first header and
\* the two version fields behind it.
CentralDirectory == <<80, 75, 1, 2, 20, 0, 20, 0>>

\* Streams decoded for their signatures (SpecSignatures).  1: an archive
\* behind the first bytes of an executable ("MZ"); 2: an entry followed by a
\* record that is neither a local file header nor a central directory
\* header (the end of central directory record); 3: a central directory
\* header at the start.
SignatureStreams ==
  << <<77, 90, 144, 0>> \o ZipRecords(ZipArchives[3]) \o CentralDirectory,
     ZipRecords(ZipArchives[1]) \o <<80, 75, 5, 6>> \o Zeros(18),
     CentralDirectory \o Zeros(38) >>

\* The archive's bytes; the streams of SignatureStreams come after
\* ZipArchives.
ZipStream(a) ==
  IF a <= Len(ZipArchives) THEN ZipRecords(ZipArchives[a]) \o CentralDirectory
  ELSE SignatureStreams[a - Len(ZipArchives)]

\* The offsets in the archive's stream at which entry k's compressed data
\* starts and ends.
ZipBodyStart(a, k) ==
  Len(ZipRecords(SubSeq(ZipArchives[a], 1, k - 1)))
  + Len(LocalFileHeader(ZipArchives[a][k]))
ZipBodyEnd(a, k) == ZipBodyStart(a, k) + Len(Deflated(ZipArchives[a][k].content))

\* --------------------------------------------------------- SpecCB: history
\* pushed / consumed: all bytes pushed / returned by consume so far.
\* other: giveBack or cleanup was used.  last: the Buffer consume returned
\* last.  op: the operation that made the last step, with what it was given
\* (what it returned, for consume) and the buffered bytes and size before it;
\* roundTrip: it is a giveBack of the whole Buffer that the consume just before
\* it returned, and was holds the bytes buffered before that consume.  For a
\* consume, wanted is its sizeWanted, before the chunks buffered when it
\* returned and waited whether it was suspended before.
NoOp == [name |-> "none", given |-> <<>>, pre |-> <<>>, preSize |-> 0,
         roundTrip |-> FALSE, was |-> <<>>, wanted |-> 0, before |-> <<>>,
         waited |-> FALSE]
InitHist ==
  [pushed |-> <<>>, consumed |-> <<>>, other |-> FALSE, last |-> <<>>,
   gives |-> 0, pushes |-> 0, op |-> NoOp]

\* ------------------------------------------------- source and Writable
\* ws: the decoder as a Writable.  buffered: chunks written while a _write was
\* unacknowledged; writing / writelen: a _write or _writev is unacknowledged,
\* and its bytes; ended: end() was called (writableEnded); finalCalled: the
\* Writable, ended and with nothing left to write, has called _final;
\* errored: the stream was destroyed with an error or emitted 'error' (no line
\* of either decoder does so: the field keeps its initial value).
NewWritable ==
  [buffered |-> <<>>, writing |-> FALSE, writelen |-> 0, ended |-> FALSE,
   finalCalled |-> FALSE, errored |-> FALSE]

\* The Writable has finished: 'finish' is emitted once end() was called and
\* every write is acknowledged.
writableFinished(w) == w.ended /\ ~w.writing /\ w.buffered = <<>>

writableLength(w) == (IF w.writing THEN w.writelen ELSE 0) + SumLen(w.buffered)

\* src: the piped byte source.  rest: the lengths of the chunks it still has
\* to write, pos: the bytes written so far, cuts: the number of chunk
\* boundaries of its stream.
NoSource == [kind |-> "none", arch |-> 0, pos |-> 0, rest |-> <<>>, cuts |-> 0]

\* wk: the decoder's worker.  pc: where it stands; h: the header at hand;
\* bytesToPush, bytesToConsume, pushedLen: locals of _pipeFileStream; ch: the
\* number of the entry's fileStream in chans; endOfTar: this._endOfTar.
NoWorker ==
  [pc |-> "none", bytesToPush |-> 0, bytesToConsume |-> 0, pushedLen |-> 0,
   ch |-> 0, endOfTar |-> FALSE, err |-> "none", globalHeader |-> NoEntries,
   paxEntries |-> NoEntries, paxHeader |-> NoHeader]

\* ------------------------------------------------------- GenericReadable
\* wait: this._waitPromise is set.  pend: the push calls suspended on it, in
\* call order.  ready: push calls whose promise was resolved and that have
\* not gone on yet.  got: the bytes handed to Readable.push so far; ended: the
\* number of Readable.push(null); late: bytes were handed over after a null;
\* sizePushed: this._sizePushed.  called: the push calls made so far, in call
\* order; out: those handed to Readable.push so far, in that order; demanded:
\* _read was called.
NewGenericReadable_open ==
  [wait |-> FALSE, pend |-> <<>>, ready |-> <<>>, got |-> <<>>, ended |-> 0,
   late |-> FALSE, sizePushed |-> 0, called |-> <<>>, out |-> <<>>,
   demanded |-> FALSE]

NewGenericReadable ==
  [wait |-> TRUE, pend |-> <<>>, ready |-> <<>>, got |-> <<>>, ended |-> 0,
   late |-> FALSE, sizePushed |-> 0, called |-> <<>>, out |-> <<>>,
   demanded |-> FALSE]

\* A push call: its Buffer (eof: it is push(null)) and whether its caller
\* awaits it.
PushCall(data, eof, awaited) == [data |-> data, eof |-> eof, awaited |-> awaited]

\* Lines 25-26 of push: the item goes to Readable.push; full is its answer
\* "needs to be drained" (always so for null), which sets a new promise.
superPush(ch, item, full) ==
  [ch EXCEPT !.got = IF item.eof THEN @ ELSE @ \o item.data,
             !.ended = IF item.eof THEN @ + 1 ELSE @,
             !.late = @ \/ (~item.eof /\ ch.ended > 0),
             !.wait = @ \/ full \/ item.eof,
             !.out = Append(@, item),
             !.sizePushed = IF item.eof THEN @ ELSE @ + Len(item.data)]

\* Line 24 of push: with a promise set the call is suspended.
suspendPush(ch, item) == [ch EXCEPT !.pend = Append(@, item)]

\* _read: the consumer signals demand.
read(ch) ==
  IF ch.wait
  THEN [ch EXCEPT !.wait = FALSE, !.ready = @ \o ch.pend, !.pend = <<>>,
                  !.demanded = TRUE]
  ELSE [ch EXCEPT !.demanded = TRUE]

\* --------------------------------------------------------- event loop
\* The worker can run: it is not suspended in _waitForMore, in a push, in a
\* write to the decompressor, on an unresolved endPromise or at its end.
WorkerRunnable ==
  /\ wk.pc \notin {"none", "exit", "end", "failed", "pushwait", "inflating"}
  /\ wk.pc = "endwait" => inf.resolved
  /\ call.st # "wait"

\* No promise continuation is pending: timers, setImmediate callbacks and
\* stream events run only then.
Quiet ==
  /\ ~WorkerRunnable
  /\ \A i \in 1..Len(chans) : chans[i].ready = <<>>

\* The bytes of the source's stream.
Stream(s) == IF s.kind = "tar" THEN TarStream(s.arch) ELSE ZipStream(s.arch)

NextChunk == SubSeq(Stream(src), src.pos + 1, src.pos + Head(src.rest))

\* TarExtractStream has seen the end of the archive (line 34, line 40).
EndOfTar == src.kind = "tar" /\ wk.endOfTar

\* The Writable, ended and with every write acknowledged, calls _final, which
\* only ZipExtractStream has (lines 260-263): cleanup().
Final(w, b) ==
  IF src.kind = "zip" /\ w.ended /\ ~w.writing /\ w.buffered = <<>>
     /\ ~w.finalCalled
  THEN [w |-> [w EXCEPT !.finalCalled = TRUE], cb |-> cleanup(b)]
  ELSE [w |-> w, cb |-> b]

\* _write / _writev with the chunks of one write: pushed into the
\* ChunkBuffer with the acknowledgement held back; acknowledged at once and
\* dropped after the end of a Tar archive.
DoWrite(w, b, chunks) ==
  IF EndOfTar
  THEN /\ ws' = [w EXCEPT !.writing = FALSE, !.writelen = 0]
       /\ cb' = b
       /\ call' = call
  ELSE /\ ws' = [w EXCEPT !.writing = TRUE, !.writelen = SumLen(chunks)]
       /\ cb' = [push(b, chunks) EXCEPT !.callbacks = @ + 1]
       /\ call' = Wake(call)

\* The source writes its next chunk: Writable.write.
SrcWrite ==
  /\ Quiet
  /\ src.rest # <<>>
  /\ ~ws.ended
  /\ src' = [src EXCEPT !.pos = @ + Head(src.rest), !.rest = Tail(@)]
  /\ IF ws.writing
     THEN /\ ws' = [ws EXCEPT !.buffered = Append(@, NextChunk)]
          /\ UNCHANGED <<cb, call>>
     ELSE DoWrite(ws, cb, <<NextChunk>>)
  /\ UNCHANGED <<hist, wk, chans, events, inf>>

\* The source ends after its last chunk: lines 22-25 and 236-239 call end().
SrcEnd ==
  /\ Quiet
  /\ src.rest = <<>>
  /\ ~ws.ended
  /\ LET f == Final([ws EXCEPT !.ended = TRUE], cb)
     IN ws' = f.w /\ cb' = f.cb
  /\ UNCHANGED <<call, hist, wk, src, chans, events, inf>>

\* A write acknowledgement handed to setImmediate runs: the Writable goes on
\* with what it buffered meanwhile (all of it in one _writev), or finishes.
WriteAck ==
  /\ Quiet
  /\ cb.immediate > 0
  /\ LET b == [cb EXCEPT !.immediate = @ - 1]
         w == [ws EXCEPT !.buffered = <<>>, !.writing = FALSE, !.writelen = 0]
     IN IF ws.buffered = <<>>
        THEN LET f == Final(w, b)
             IN ws' = f.w /\ cb' = f.cb /\ call' = call
        ELSE DoWrite(w, b, ws.buffered)
  /\ UNCHANGED <<hist, wk, src, chans, events, inf>>

\* The stall window of the consume the worker is suspended in elapses.
Timeout ==
  /\ Quiet
  /\ call.st = "wait"
  /\ call' = [call EXCEPT !.st = "timedout"]
  /\ UNCHANGED <<cb, hist, wk, ws, src, chans, events, inf>>

\* The consumer of entry i's fileStream signals demand (_read).
ChanRead ==
  \E i \in 1..Len(chans) :
    /\ Quiet
    /\ chans[i].wait
    /\ chans[i].ended = 0
    /\ chans' = [chans EXCEPT ![i] = read(@)]
    /\ UNCHANGED <<cb, call, hist, wk, ws, src, events, inf>>

\* A push call that was suspended goes on after line 24.
ChanResume ==
  \E i \in 1..Len(chans), full \in BOOLEAN :
    /\ chans[i].ready # <<>>
    /\ LET item == Head(chans[i].ready)
       IN /\ chans' = [chans EXCEPT
                 ![i] = superPush([@ EXCEPT !.ready = Tail(@)], item, full)]
          /\ wk' = IF item.awaited
                   THEN [wk EXCEPT !.pc = "pushed", !.pushedLen = Len(item.data)]
                   ELSE wk
    /\ UNCHANGED <<cb, call, hist, ws, src, events, inf>>

\* ------------------------------------------------------- TarExtractStream
\* Failed that keeps the worker where it is.
Failed_goesOn(w, why) == [w EXCEPT !.err = why]

\* The worker fails: an error thrown in _worker ends it.
Failed(w, why) == [w EXCEPT !.pc = "failed", !.err = why]

\* Line 73: the loop test.
TarLoop ==
  /\ wk.pc = "loop"
  /\ IF ws.ended
     THEN wk' = [wk EXCEPT !.pc = "exit"] /\ call' = call
     ELSE wk' = [wk EXCEPT !.pc = "hdr"] /\ call' = StartCall(BlockSize, FALSE)
  /\ UNCHANGED <<cb, hist, ws, src, chans, events, inf>>

\* The number a header's size counts as (null, NaN and texts that are no
\* number: 0, which every use treats like them).
sizeOf(h) == LET v == ToNumber(h.size) IN IF v.t = "num" THEN v.n ELSE 0

IsPax(h) == h.typeflag \in {Str(<<103>>), Str(<<120>>)}

\* fileFollows that takes every entry for one with file data.
fileFollows_always(header) == TRUE

\* Line 90: whether file data follows the header.
fileFollows(header) == header.linkname.t = "null"

\* Lines 74-98: the header _parseHeader made of the consumed record (its
\* fields with this._globalHeader spread over them, null for an all-zero
\* record) and what the worker does with it.  At "hdr" it is the header of
\* line 74, at "hdr2" the one that follows PAX entries (line 85), over which
\* the entries are spread.
TarHeaderGot(buffer, b) ==
  LET p == parseHeader(buffer)
      own == spreadOver(p.h, wk.globalHeader)
      header == IF wk.pc = "hdr" THEN own
                ELSE spreadOver(IF p.kind = "end" THEN NoHeader ELSE own,
                                wk.paxEntries)
      pax == IF wk.pc = "hdr" THEN wk.globalHeader
             ELSE Spread(IF p.kind = "end" THEN NoEntries ELSE wk.globalHeader,
                         wk.paxEntries)
  IN CASE p.kind = "throw" ->
            /\ wk' = Failed(wk, "binary")
            /\ cb' = b
            /\ call' = IdleCall
            /\ UNCHANGED <<chans, events>>
       [] p.kind = "end" /\ wk.pc = "hdr" ->
            /\ wk' = [wk EXCEPT !.pc = "end", !.endOfTar = TRUE]
            /\ cb' = cleanup(b)
            /\ call' = IdleCall
            /\ UNCHANGED <<chans, events>>
       [] p.kind = "header" /\ wk.pc = "hdr" /\ IsPax(header) ->
            /\ wk' = [wk EXCEPT !.pc = "pax", !.paxHeader = header]
            /\ cb' = b
            /\ call' = StartCall(AlignedSize(ToNumber(header.size)), FALSE)
            /\ UNCHANGED <<chans, events>>
       [] OTHER ->
            IF fileFollows(header)
            THEN /\ chans' = Append(chans, NewGenericReadable)
                 /\ events' = Append(events, [header |-> header, pax |-> pax,
                                              ch |-> Len(chans) + 1])
                 /\ wk' = [wk EXCEPT !.pc = "body",
                                     !.ch = Len(chans) + 1,
                                     !.bytesToPush = sizeOf(header),
                                     !.bytesToConsume =
                                        AlignedSize(ToNumber(header.size))]
                 /\ cb' = b
                 /\ call' = IdleCall
            ELSE /\ events' = Append(events, [header |-> header, pax |-> pax,
                                              ch |-> 0])
                 /\ wk' = [wk EXCEPT !.pc = "loop"]
                 /\ cb' = b
                 /\ call' = IdleCall
                 /\ UNCHANGED chans

\* _parseHeader's consume of one record (lines 104-105), for the header of
\* line 74 and for the one of line 85.
TarParseHeader ==
  /\ wk.pc \in {"hdr", "hdr2"}
  /\ call.st \in {"start", "woken", "timedout"}
  /\ LET o == consume(cb, call)
     IN CASE o.kind = "wait" ->
               cb' = o.cb /\ call' = o.call /\ UNCHANGED <<wk, chans, events>>
          [] o.kind = "ret" /\ ~equalsFalse(o.buf) -> TarHeaderGot(o.buf, o.cb)
          [] OTHER -> /\ wk' = Failed(wk, "timeout")
                      /\ cb' = o.cb
                      /\ call' = o.call
                      /\ UNCHANGED <<chans, events>>
  /\ UNCHANGED <<hist, ws, src, inf>>

\* Lines 81-83 and 156-173: the consume of the PAX entries' records, their
\* parse, and the start of the _parseHeader of line 85.
TarParsePaxEntries ==
  /\ wk.pc = "pax"
  /\ call.st \in {"start", "woken", "timedout"}
  /\ LET o == consume(cb, call)
         paxEntries == parsePaxEntries(o.buf, sizeOf(wk.paxHeader))
     IN /\ cb' = o.cb
        /\ CASE o.kind = "wait" -> call' = o.call /\ wk' = wk
             [] o.kind = "ret" /\ ~equalsFalse(o.buf) ->
                  /\ call' = StartCall(BlockSize, FALSE)
                  /\ wk' = [wk EXCEPT
                       !.pc = "hdr2",
                       !.paxEntries = paxEntries,
                       !.globalHeader =
                          IF wk.paxHeader.typeflag = Str(<<103>>)
                          THEN paxEntries ELSE @]
             [] OTHER -> call' = o.call /\ wk' = Failed(wk, "timeout")
  /\ UNCHANGED <<hist, ws, src, chans, events, inf>>

\* bodyWanted that asks for all that is at hand.
bodyWanted_all(size, length, bytesToConsume) == size + length

\* Lines 51-55: how many bytes the next consume of the body asks for.
bodyWanted(size, length, bytesToConsume) ==
  IF size + length >= bytesToConsume THEN bytesToConsume ELSE size + length

\* bufferToPush without the cut at bytesToPush: the pad goes along.
bufferToPush_whole(buffer, bytesToPush) == buffer

\* Line 59: the part of the consumed buffer that goes to the fileStream.
bufferToPush(buffer, bytesToPush) == subarray(buffer, 0, bytesToPush)

\* ChanPush that does not suspend the push of the end marker.
ChanPush_eager(ch, item, full) ==
  LET c == [ch EXCEPT !.called = Append(@, item)]
  IN IF ch.wait /\ ~item.eof THEN suspendPush(c, item)
     ELSE superPush(c, item, full)

\* GenericReadable.push called on fileStream ch with item: suspended, or
\* handed over at once.
ChanPush(ch, item, full) ==
  LET c == [ch EXCEPT !.called = Append(@, item)]
  IN IF ch.wait THEN suspendPush(c, item) ELSE superPush(c, item, full)

\* Lines 48-61 of _pipeFileStream: the loop test, the consume, and the push
\* of what was consumed.
TarBody ==
  /\ wk.pc = "body"
  /\ call.st \in {"idle", "woken", "timedout"}
  /\ IF call.st = "idle" /\ wk.bytesToConsume = 0
     THEN /\ wk' = [wk EXCEPT !.pc = "loop"]
          /\ UNCHANGED <<cb, call, chans>>
     ELSE LET c == IF call.st = "idle"
                   THEN StartCall(bodyWanted(cb.size, writableLength(ws),
                                             wk.bytesToConsume), FALSE)
                   ELSE call
              o == consume(cb, c)
              part == bufferToPush(o.buf, wk.bytesToPush)
              item == PushCall(part, FALSE, TRUE)
              left == wk.bytesToConsume - Len(o.buf)
          IN /\ call' = o.call
             /\ cb' = o.cb
             /\ CASE o.kind = "wait" -> UNCHANGED <<wk, chans>>
                  [] o.kind = "ret" /\ equalsFalse(o.buf) ->
                       wk' = Failed(wk, "timeout") /\ UNCHANGED chans
                  [] o.kind = "ret" /\ wk.bytesToPush = 0 ->
                       /\ wk' = [wk EXCEPT !.bytesToConsume = left]
                       /\ UNCHANGED chans
                  [] o.kind = "ret" /\ wk.bytesToPush # 0 ->
                       \E full \in BOOLEAN :
                         /\ chans' = [chans EXCEPT
                                        ![wk.ch] = ChanPush(@, item, full)]
                         /\ wk' = [wk EXCEPT
                              !.bytesToConsume = left,
                              !.pushedLen = Len(part),
                              !.pc = IF chans[wk.ch].wait THEN "pushwait"
                                     ELSE "pushed"]
                  [] OTHER -> wk' = Failed(wk, "timeout") /\ UNCHANGED chans
  /\ UNCHANGED <<hist, ws, src, events, inf>>

\* Lines 63-66: after the awaited push.
TarPushed ==
  /\ wk.pc = "pushed"
  /\ LET left == wk.bytesToPush - wk.pushedLen
     IN /\ wk' = [wk EXCEPT !.pc = "body", !.bytesToPush = left]
        /\ IF left = 0
           THEN chans' = [chans EXCEPT
                  ![wk.ch] = ChanPush(@, PushCall(<<>>, TRUE, FALSE), TRUE)]
           ELSE chans' = chans
  /\ UNCHANGED <<cb, call, hist, ws, src, events, inf>>

\* ----------------------------------------------------------------- SpecTar
\* Chunk boundaries of the test streams: the offsets within a record at which
\* the source may cut, and how many cuts it makes.
MaxCuts == 2
CutOffsets == {0, 9, 100}

CutPoints(len) == {o \in 1..(len - 1) : (o % BlockSize) \in CutOffsets}

RECURSIVE Lengths(_, _, _)
\* The chunk lengths of a stream of len bytes cut at the offsets in cuts.
Lengths(cuts, from, len) ==
  IF cuts = {} THEN <<len - from>>
  ELSE LET c == CHOOSE x \in cuts : \A y \in cuts : x <= y
       IN <<c - from>> \o Lengths(cuts \ {c}, c, len)

Splits(len) ==
  {Lengths(cuts, 0, len) : cuts \in {c \in SUBSET CutPoints(len) : Cardinality(c) <= MaxCuts}}

InitTar ==
  /\ cb = NewChunkBuffer
  /\ call = IdleCall
  /\ hist = InitHist
  /\ wk = [NoWorker EXCEPT !.pc = "loop"]
  /\ ws = NewWritable
  /\ \E a \in 1..Len(TarArchives) :
       \E split \in Splits(Len(TarStream(a))) :
         src = [kind |-> "tar", arch |-> a, pos |-> 0, rest |-> split,
                cuts |-> Len(split) - 1]
  /\ chans = <<>>
  /\ events = <<>>
  /\ inf = NewInflate

NextTar ==
  \/ SrcWrite
  \/ SrcEnd
  \/ WriteAck
  \/ Timeout
  \/ ChanRead
  \/ ChanResume
  \/ TarLoop
  \/ TarParseHeader
  \/ TarParsePaxEntries
  \/ TarBody
  \/ TarPushed

SpecTar == InitTar /\ [][NextTar]_vars

\* ------------------------------------------------------------- SpecRecords
\* The Tar decoder on RecordArchives, the source writing the stream whole or
\* in two chunks cut between two records.
RecordSplits(len) ==
  {<<len>>} \cup {<<c, len - c>> : c \in {o \in 1..(len - 1) : o % BlockSize = 0}}

InitRecords ==
  /\ cb = NewChunkBuffer
  /\ call = IdleCall
  /\ hist = InitHist
  /\ wk = [NoWorker EXCEPT !.pc = "loop"]
  /\ ws = NewWritable
  /\ \E a \in (Len(TarArchives) + 1)..Len(AllTarArchives) :
       \E cut \in RecordSplits(Len(TarStream(a))) :
         src = [kind |-> "tar", arch |-> a, pos |-> 0, rest |-> cut,
                cuts |-> Len(cut) - 1]
  /\ chans = <<>>
  /\ events = <<>>
  /\ inf = NewInflate

SpecRecords == InitRecords /\ [][NextTar]_vars

\* The names of the entry events so far, and of the archive's header records
\* (those of PAX entries, which belong to the entry behind them, left out).
EventNames == [i \in 1..Len(events) |-> events[i].header.name.s]
IsEntry(e) == e.typeflag \notin {103, 120}
ArchiveNames(a) ==
  LET es == SelectSeq(TarArchives[a], IsEntry)
  IN [i \in 1..Len(es) |-> es[i].name]
IsPrefix(p, q) == Len(p) <= Len(q) /\ p = SubSeq(q, 1, Len(p))

\* The worker has stopped without an error.
TarStopped == wk.pc \in {"exit", "end"}

\* C1: the Tar decoder emits one entry event per header record, in archive
\* order, and when the worker stops without a stall it has emitted them all
\* and has reached End.
C1_EntriesThenEnd ==
  /\ IsPrefix(EventNames, ArchiveNames(src.arch))
  /\ TarStopped => wk.pc = "end" /\ EventNames = ArchiveNames(src.arch)

\* The archives of one file with a body.
SingleFile(a) ==
  /\ Len(TarArchives[a]) = 1
  /\ IsEntry(TarArchives[a][1])
  /\ TarArchives[a][1].body # <<>>
  /\ TarArchives[a][1].linkname = <<>>

\* Nothing is on its way into fileStream i any more.
Drained(i) == chans[i].pend = <<>> /\ chans[i].ready = <<>>

EndPushes(i) ==
  chans[i].ended
  + Cardinality({k \in 1..Len(chans[i].pend) : chans[i].pend[k].eof})
  + Cardinality({k \in 1..Len(chans[i].ready) : chans[i].ready[k].eof})

\* The worker is through with _pipeFileStream for fileStream i.
BodyDone(i) ==
  i < wk.ch \/ (i = wk.ch /\ wk.pc \in {"loop", "hdr", "pax", "hdr2", "exit", "end"})

\* C3: every fileStream the Tar decoder emits gets the end marker exactly
\* once, whatever the declared size: when _pipeFileStream has returned,
\* push(null) was called once on it.
C3_EndMarkerOnce ==
  \A i \in 1..Len(chans) :
    /\ EndPushes(i) <= 1
    /\ BodyDone(i) => EndPushes(i) = 1

\* The entry event of fileStream i.
EntryOf(i) == CHOOSE k \in 1..Len(events) : events[k].ch = i

\* C14: as long as _read was never called on the fileStream of a Tar entry
\* with a body, that entry is the last one emitted and the worker is in its
\* _pipeFileStream, before or in the first push of the body (or has failed
\* there): nothing was handed to the fileStream and no further header was
\* read.
C14_TarStalledConsumer ==
  \A i \in 1..Len(chans) :
    (src.kind = "tar" /\ ~chans[i].demanded
       /\ sizeOf(events[EntryOf(i)].header) > 0) =>
      /\ EntryOf(i) = Len(events)
      /\ wk.ch = i
      /\ wk.pc \in {"body", "pushwait", "failed"}
      /\ wk.bytesToPush = sizeOf(events[EntryOf(i)].header)
      /\ chans[i].out = <<>>

\* The whole archive of three entries was written and the source has ended;
\* the worker is still suspended in the first push of the first entry, whose
\* consumer has not asked for anything.
C14_Witness ==
  /\ src.kind = "tar"
  /\ src.arch = 2
  /\ src.rest = <<>>
  /\ ws.ended
  /\ Len(events) = 1
  /\ wk.pc = "pushwait"
  /\ ~chans[1].demanded
  /\ chans[1].pend # <<>>

\* C19: when the stall window of a consume of the Tar worker (for a header
\* record, for PAX entries or for an entry's body) has elapsed, the worker's
\* next step ends it with the timeout error, emitting nothing; and once the
\* worker has failed it stays so, no entry event is emitted and no fileStream
\* is given a byte.
C19_TarTimeoutAborts ==
  /\ [][(src.kind = "tar" /\ call.st = "timedout")
          => /\ wk'.pc = "failed"
             /\ wk'.err = "timeout"
             /\ events' = events
             /\ chans' = chans]_vars
  /\ [][(src.kind = "tar" /\ wk.pc = "failed")
          => /\ wk' = wk
             /\ events' = events
             /\ Len(chans') = Len(chans)
             /\ \A i \in 1..Len(chans) : chans'[i].got = chans[i].got]_vars

\* The worker failed on a timeout while it waited for the rest of the PAX
\* entries' record: their header was read, part of the record is buffered,
\* no entries were parsed and no entry event was emitted.
C19_Witness ==
  /\ src.kind = "tar"
  /\ wk.pc = "failed"
  /\ wk.err = "timeout"
  /\ IsPax(wk.paxHeader)
  /\ wk.paxEntries = NoEntries
  /\ cb.size > 0
  /\ events = <<>>

\* C20: the step in which the Tar worker gets an all-zero record from
\* _parseHeader's consume sets _endOfTar and ends the worker, emits nothing,
\* and leaves the ChunkBuffer empty with its held acknowledgements released;
\* after the end of the archive the worker stays ended, no entry event is
\* emitted, nothing is buffered and no write is left unacknowledged.
C20_ZeroRecordEnds ==
  /\ [][(/\ src.kind = "tar"
          /\ wk.pc \in {"hdr", "hdr2"}
          /\ call.st \in {"start", "woken"}
          /\ consume(cb, call).kind = "ret"
          /\ consume(cb, call).buf = Zeros(BlockSize))
          => /\ wk'.endOfTar
             /\ wk'.pc = "end"
             /\ events' = events
             /\ chans' = chans
             /\ cb'.chunks = <<>>
             /\ cb'.size = 0
             /\ cb'.callbacks = 0
             /\ cb'.immediate = cb.immediate + cb.callbacks]_vars
  /\ [][wk.endOfTar
          => /\ wk' = wk
             /\ events' = events
             /\ cb'.chunks = <<>>
             /\ cb'.size = 0
             /\ cb'.callbacks = 0
             /\ ~ws.writing => ~ws'.writing]_vars

\* --------------------------------------------------------------- SpecEntry
\* entry(size, isOctal) of _parseHeader applied to single fields.  The
\* fields: of 2 and of 8 bytes every text over FieldBytes; of 12 bytes every
\* such text of 4 bytes followed by one of FieldTails.
FieldBytes == {0, 55, 200}

\* 8 bytes as big-endian numbers: 0, 258, 2^31 - 1, 2^31, 2^53 - 1, 2^53,
\* 2^56 and 2^64 - 1.
FieldTails ==
  { Zeros(8),
    <<0, 0, 0, 0, 0, 0, 1, 2>>,
    <<0, 0, 0, 0, 127, 255, 255, 255>>,
    <<0, 0, 0, 0, 128, 0, 0, 0>>,
    <<0, 31, 255, 255, 255, 255, 255, 255>>,
    <<0, 32, 0, 0, 0, 0, 0, 0>>,
    <<1, 0, 0, 0, 0, 0, 0, 0>>,
    <<255, 255, 255, 255, 255, 255, 255, 255>> }

Fields ==
  [1..2 -> FieldBytes] \cup [1..8 -> FieldBytes]
  \cup {head \o tail : head \in [1..4 -> FieldBytes], tail \in FieldTails}

\* The field has not been decoded yet.
Pending == [t |-> "pending", n |-> 0, s |-> <<>>]

InitEntry ==
  /\ cb = NewChunkBuffer
  /\ call = IdleCall
  /\ \E field \in Fields, isOctal \in BOOLEAN :
       hist = [field |-> field, isOctal |-> isOctal, value |-> Pending]
  /\ wk = NoWorker
  /\ ws = NewWritable
  /\ src = NoSource
  /\ chans = <<>>
  /\ events = <<>>
  /\ inf = NewInflate

\* Lines 108-131: the field is decoded.
EntryDecode ==
  /\ hist.value = Pending
  /\ hist' = [hist EXCEPT
                !.value = entry(hist.field, 0, Len(hist.field), hist.isOctal)]
  /\ UNCHANGED <<cb, call, wk, ws, src, chans, events, inf>>

SpecEntry == InitEntry /\ [][EntryDecode]_vars

\* The field's text up to its first NUL, as text or as an octal number; null
\* when it is empty.
TextValue(field, isOctal) ==
  LET nuls == {i \in 1..Len(field) : field[i] = 0}
      text == IF nuls = {} THEN field
              ELSE SubSeq(field, 1, (CHOOSE i \in nuls : \A j \in nuls : i <= j) - 1)
  IN IF text = <<>> THEN Null
     ELSE IF isOctal THEN parseInt8(text) ELSE Str(text)

\* The unsigned big-endian integer of the field's last 8 bytes: a failure
\* for a field of less than 8 bytes and for an integer above 2^53 - 1.
BinaryValue(field) ==
  LET b == SubSeq(field, Len(field) - 7, Len(field))
  IN IF Len(field) < 8 \/ b[1] > 0 \/ b[2] > 31 THEN Thrown
     ELSE IF b[2] = 0 /\ b[3] = 0 /\ b[4] = 0 /\ b[5] < 128
          THEN Num(b[5] * 16777216 + b[6] * 65536 + b[7] * 256 + b[8])
          ELSE Big(b)

\* C23: a decoded field is the binary value of its last 8 bytes if its first
\* byte has the high bit set, and otherwise the text up to its first NUL,
\* whatever its later bytes are.
C23_BinaryByLeadingByte ==
  hist.value # Pending =>
    hist.value = IF hist.field[1] >= 128 THEN BinaryValue(hist.field)
                 ELSE TextValue(hist.field, hist.isOctal)

\* The code's test for a binary field: a byte with the high bit set comes
\* before the first NUL.
DecodedAsBinary(field) ==
  \E i \in 1..Len(field) :
    field[i] >= 128 /\ \A j \in 1..(i - 1) : field[j] # 0

PaxArchive == Len(TarArchives) + 1

RECURSIVE KeyValues(_)
\* The object that maps each record's key to its value.
KeyValues(records) ==
  IF records = <<>> THEN NoEntries
  ELSE LET n == Len(records)
       IN Put(KeyValues(SubSeq(records, 1, n - 1)), records[n][1], records[n][2])

RECURSIVE GlobalBefore(_, _)
\* The key/values of the global PAX entries among the first k elements of es.
GlobalBefore(es, k) ==
  IF k = 0 THEN NoEntries
  ELSE IF es[k].typeflag = 103
       THEN Spread(GlobalBefore(es, k - 1), KeyValues(es[k].records))
       ELSE GlobalBefore(es, k - 1)

\* The key/values that are to apply to element k of es: the global ones so
\* far, and over them those of per-entry PAX entries right in front of it.
AppliesTo(es, k) ==
  Spread(GlobalBefore(es, k),
         IF k > 1 /\ es[k - 1].typeflag = 120
         THEN KeyValues(es[k - 1].records) ELSE NoEntries)

\* The positions in es of the entries proper, in order.
RECURSIVE EntryPositions(_, _)
EntryPositions(es, k) ==
  IF k > Len(es) THEN <<>>
  ELSE (IF IsEntry(es[k]) THEN <<k>> ELSE <<>>) \o EntryPositions(es, k + 1)

\* C21: in the archive of a global PAX header (uname=g, gname=h), file a,
\* a per-entry PAX header (uname=x), file b and file c, every emitted header
\* carries the key/values that apply to it, and no others: a and c the
\* global ones, b the global gname and the per-entry uname.
C21_PaxScopes ==
  src.arch = PaxArchive =>
    LET es == AllTarArchives[src.arch]
        at == EntryPositions(es, 1)
    IN \A i \in 1..Len(events) :
         LET m == AppliesTo(es, at[i])
         IN /\ events[i].header.name = Str(es[at[i]].name)
            /\ events[i].pax = m
            /\ events[i].header.uname = Str(m[UnameKey])
            /\ events[i].header.gname = Str(m[GnameKey])

\* C22: the entries _parsePaxEntries made of a PAX body map each record's
\* key to its value and hold no other key.
C22_PaxKeys ==
  (src.arch = PaxArchive /\ wk.pc = "hdr2") =>
    LET es == AllTarArchives[src.arch]
        e == CHOOSE x \in {es[k] : k \in 1..Len(es)} :
               Str(<<x.typeflag>>) = wk.paxHeader.typeflag
    IN wk.paxEntries = KeyValues(e.records)

\* ------------------------------------------------------- ZipExtractStream
\* wk of the Zip decoder.  startOfFile: the local of _worker; raw: the
\* rawHeader at hand; chunk, totalWritten: the locals of _pipeFileStream's
\* loop; result: what endPromise gave; ch: the number of the entry's
\* fileStream in chans.
ZipWorker ==
  [pc |-> "loop", startOfFile |-> TRUE, raw |-> rawHeaderOf(Zeros(26)),
   chunk |-> <<>>, totalWritten |-> 0, result |-> <<0, 0>>, ch |-> 0,
   err |-> "none"]

\* hist of the Zip decoder.  bodyDone: the loop of _pipeFileStream found the
\* end of the entry's compressed data; atBoundary: it found it with a chunk
\* of which the decompressor took nothing; within: for some entry so far it
\* found it with part of a chunk left over; swallowed: the loop was left by
\* its catch; dd: the worker has just read a data descriptor ("signed" or
\* "unsigned"), from the 16 bytes ddBuf, with ddBehind buffered behind them.
ZipHist ==
  [bodyDone |-> FALSE, atBoundary |-> FALSE, within |-> FALSE,
   swallowed |-> FALSE, dd |-> "none", ddBuf |-> <<>>, ddBehind |-> <<>>]

\* An event of the Zip decoder: 'entry' with {name, size} and the fileStream,
\* or 'dataDescriptor' with the descriptor.
EntryEvent(raw, ch) ==
  [type |-> "entry", name |-> raw.name, size |-> raw.uncompressedSize,
   ch |-> ch, dd |-> dataDescriptorOf(Zeros(16))]
DescriptorEvent(dd) ==
  [type |-> "dataDescriptor", name |-> <<>>, size |-> 0, ch |-> 0, dd |-> dd]

\* this.end() called by the worker or for the source's end.
end(w, b) == Final([w EXCEPT !.ended = TRUE], b)

\* Line 440: the loop test.
ZipLoop ==
  /\ wk.pc = "loop"
  /\ IF ws.ended
     THEN wk' = [wk EXCEPT !.pc = "exit"] /\ call' = call
     ELSE wk' = [wk EXCEPT !.pc = "sig"] /\ call' = StartCall(4, TRUE)
  /\ hist' = [hist EXCEPT !.dd = "none"]
  /\ UNCHANGED <<cb, ws, src, chans, events, inf>>

\* signatureOutcome that takes any first signature for a local file header's.
signatureOutcome_anyStart(startOfFile, signature) ==
  IF startOfFile THEN "header"
  ELSE IF signature = centralDirectoryFileHeaderSignature THEN "end"
  ELSE IF signature = localFileHeaderSignature THEN "header"
  ELSE "corrupted"

\* Lines 443-456: what the signature read leads to.
signatureOutcome(startOfFile, signature) ==
  IF startOfFile
  THEN IF signature # localFileHeaderSignature THEN "invalid" ELSE "header"
  ELSE IF signature = centralDirectoryFileHeaderSignature THEN "end"
  ELSE IF signature = localFileHeaderSignature THEN "header"
  ELSE "corrupted"

\* Lines 442-457: the signature of the next record.
ZipSignature ==
  /\ wk.pc = "sig"
  /\ call.st \in {"start", "woken", "timedout"}
  /\ LET o == consume(cb, call)
         signature == readUInt32BE(o.buf, 0)
         outcome == signatureOutcome(wk.startOfFile, signature)
     IN CASE o.kind = "wait" ->
               cb' = o.cb /\ call' = o.call /\ UNCHANGED <<wk, ws>>
          [] o.kind \in {"throw", "false"} ->
               /\ wk' = Failed(wk, "timeout")
               /\ cb' = o.cb /\ call' = o.call /\ ws' = ws
          [] o.kind = "ret" /\ outcome = "invalid" ->
               /\ wk' = Failed([wk EXCEPT !.startOfFile = FALSE], "signature")
               /\ cb' = o.cb /\ call' = o.call /\ ws' = ws
          [] o.kind = "ret" /\ outcome = "end" ->
               /\ wk' = [wk EXCEPT !.pc = "end"]
               /\ ws' = end(ws, o.cb).w
               /\ cb' = end(ws, o.cb).cb
               /\ call' = o.call
          [] o.kind = "ret" /\ outcome = "corrupted" ->
               /\ wk' = Failed(wk, "signature")
               /\ cb' = o.cb /\ call' = o.call /\ ws' = ws
          [] OTHER ->
               /\ wk' = [wk EXCEPT !.pc = "core", !.startOfFile = FALSE]
               /\ cb' = o.cb
               /\ call' = StartCall(26, TRUE)
               /\ ws' = ws
  /\ UNCHANGED <<hist, src, chans, events, inf>>

\* ZipEntry that goes on to the body without announcing the entry.
ZipEntry_unannounced(raw) ==
  /\ chans' = Append(chans, NewGenericReadable)
  /\ events' = events
  /\ inf' = NewInflate
  /\ hist' = [hist EXCEPT !.bodyDone = FALSE, !.atBoundary = FALSE,
                          !.swallowed = FALSE]
  /\ wk' = [wk EXCEPT !.raw = raw, !.ch = Len(chans) + 1, !.totalWritten = 0,
                      !.pc = IF raw.compressedSize = 0 THEN "feed"
                             ELSE "endwait"]
  /\ call' = IF raw.compressedSize = 0 THEN StartCall(0, TRUE) ELSE IdleCall

\* Lines 482-486 and 348-365: the entry is announced, its decompressor made,
\* and _pipeFileStream goes into its loop or, with a compressedSize, straight
\* to its await of endPromise.
ZipEntry(raw) ==
  /\ chans' = Append(chans, NewGenericReadable)
  /\ events' = Append(events, EntryEvent(raw, Len(chans) + 1))
  /\ inf' = NewInflate
  /\ hist' = [hist EXCEPT !.bodyDone = FALSE, !.atBoundary = FALSE,
                          !.swallowed = FALSE]
  /\ wk' = [wk EXCEPT !.raw = raw, !.ch = Len(chans) + 1, !.totalWritten = 0,
                      !.pc = IF raw.compressedSize = 0 THEN "feed"
                             ELSE "endwait"]
  /\ call' = IF raw.compressedSize = 0 THEN StartCall(0, TRUE) ELSE IdleCall

\* "false" as toString() gives it.
FalseText == <<102, 97, 108, 115, 101>>

\* Lines 265-341, _parseLocalFileHeader: the consume of the 26 bytes, of the
\* name and of the extra fields.
ZipParseLocalFileHeader ==
  /\ wk.pc \in {"core", "name", "extra"}
  /\ call.st \in {"start", "woken", "timedout"}
  /\ LET o == consume(cb, call)
         named == [wk.raw EXCEPT !.name = IF o.kind = "ret" THEN o.buf
                                          ELSE FalseText]
         x == extraFields(o.buf, 0, wk.raw)
         stay == UNCHANGED <<hist, chans, events, inf>>
     IN /\ cb' = o.cb
        /\ CASE o.kind = "wait" -> call' = o.call /\ wk' = wk /\ stay
             [] o.kind = "throw" \/ (o.kind = "false" /\ wk.pc # "name") ->
                  call' = o.call /\ wk' = Failed(wk, "timeout") /\ stay
             [] wk.pc = "core" ->
                  /\ wk' = [wk EXCEPT !.pc = "name", !.raw = rawHeaderOf(o.buf)]
                  /\ call' = StartCall(rawHeaderOf(o.buf).nameLength, TRUE)
                  /\ stay
             [] wk.pc = "name" /\ wk.raw.extraFieldsTotalSize # 0 ->
                  /\ wk' = [wk EXCEPT !.pc = "extra", !.raw = named]
                  /\ call' = StartCall(wk.raw.extraFieldsTotalSize, TRUE)
                  /\ stay
             [] wk.pc = "name" /\ wk.raw.extraFieldsTotalSize = 0 ->
                  ZipEntry(named)
             [] wk.pc = "extra" /\ ~x.ok ->
                  call' = o.call /\ wk' = Failed(wk, "range") /\ stay
             [] OTHER -> ZipEntry(x.raw)
  /\ UNCHANGED <<ws, src>>

\* Lines 369-370: the consume of whatever is buffered.  A timeout, and the
\* write of the sentinel false, are caught at line 413.
ZipFeed ==
  /\ wk.pc = "feed"
  /\ call.st \in {"start", "woken", "timedout"}
  /\ LET o == consume(cb, call)
     IN /\ cb' = o.cb
        /\ call' = o.call
        /\ CASE o.kind = "wait" -> UNCHANGED <<wk, hist>>
             [] o.kind = "ret" ->
                  /\ wk' = [wk EXCEPT !.pc = "inflating", !.chunk = o.buf]
                  /\ hist' = hist
             [] OTHER ->
                  /\ wk' = [wk EXCEPT !.pc = "endwait"]
                  /\ hist' = [hist EXCEPT !.swallowed = TRUE]
  /\ UNCHANGED <<ws, src, chans, events, inf>>

\* Lines 353-363 and 373-389: the decompressor has processed the chunk.  Its
\* output goes to the fileStream, unawaited; its end pushes null and resolves
\* endPromise; the write's callback gives back what the decompressor did not
\* take, or lets the loop go on.
ZipInflated ==
  /\ wk.pc = "inflating"
  /\ Quiet
  /\ \E full \in BOOLEAN :
       LET r == inflateWrite(inf, wk.chunk)
           totalWritten == wk.totalWritten + Len(wk.chunk)
           ch1 == IF r.out = <<>> THEN chans[wk.ch]
                  ELSE ChanPush(chans[wk.ch], PushCall(r.out, FALSE, FALSE), full)
           ch2 == IF r.z.ended
                  THEN ChanPush(ch1, PushCall(<<>>, TRUE, FALSE), TRUE)
                  ELSE ch1
       IN /\ r.out = <<>> => full
          /\ chans' = [chans EXCEPT ![wk.ch] = ch2]
          /\ inf' = IF r.z.ended
                    THEN [r.z EXCEPT !.resolved = TRUE,
                            !.result = <<r.z.bytesWritten, ch1.sizePushed>>]
                    ELSE r.z
          /\ CASE r.z.err ->
                    /\ cb' = giveBack(cb, wk.chunk, 0)
                    /\ wk' = Failed(wk, "inflate")
                    /\ UNCHANGED <<call, hist>>
               [] ~r.z.err /\ totalWritten > r.z.bytesWritten ->
                    /\ cb' = giveBack(cb, wk.chunk,
                                      totalWritten - r.z.bytesWritten)
                    /\ wk' = [wk EXCEPT !.pc = "endwait",
                                        !.totalWritten = totalWritten]
                    /\ hist' = [hist EXCEPT
                                  !.bodyDone = TRUE,
                                  !.atBoundary =
                                     r.z.bytesWritten = inf.bytesWritten,
                                  !.within =
                                     @ \/ r.z.bytesWritten # inf.bytesWritten]
                    /\ call' = call
               [] OTHER ->
                    /\ cb' = cb
                    /\ wk' = [wk EXCEPT !.pc = "feed",
                                        !.totalWritten = totalWritten]
                    /\ call' = StartCall(0, TRUE)
                    /\ hist' = hist
  /\ UNCHANGED <<ws, src, events>>

\* Lines 418 and 486-488: endPromise is resolved and the worker goes on, to
\* the data descriptor if the header's flag says there is one.
ZipEndWait ==
  /\ wk.pc = "endwait"
  /\ inf.resolved
  /\ IF wk.raw.dataDescriptor # 0
     THEN /\ wk' = [wk EXCEPT !.pc = "dd", !.result = inf.result]
          /\ call' = StartCall(16, TRUE)
     ELSE /\ wk' = [wk EXCEPT !.pc = "loop", !.result = inf.result]
          /\ call' = call
  /\ UNCHANGED <<cb, hist, ws, src, chans, events, inf>>

\* Lines 488-508: the data descriptor.
ZipDataDescriptor ==
  /\ wk.pc = "dd"
  /\ call.st \in {"start", "woken", "timedout"}
  /\ LET o == consume(cb, call)
         signed == readUInt32BE(o.buf, 0) = dataDescriptorSignature
     IN /\ call' = o.call
        /\ CASE o.kind = "wait" -> cb' = o.cb /\ UNCHANGED <<wk, hist, events>>
             [] o.kind = "ret" ->
                  /\ cb' = IF signed THEN o.cb ELSE giveBack(o.cb, o.buf, 4)
                  /\ events' = Append(events,
                                      DescriptorEvent(dataDescriptorOf(o.buf)))
                  /\ wk' = [wk EXCEPT !.pc = "loop"]
                  /\ hist' = [hist EXCEPT
                                !.dd = IF signed THEN "signed" ELSE "unsigned",
                                !.ddBuf = o.buf,
                                !.ddBehind = Flat(o.cb.chunks)]
             [] OTHER ->
                  /\ cb' = o.cb
                  /\ wk' = Failed(wk, "timeout")
                  /\ UNCHANGED <<hist, events>>
  /\ UNCHANGED <<ws, src, chans, inf>>

\* ----------------------------------------------------------------- SpecZip
\* Chunk boundaries of the test streams: around the parts of each record.
ZipCutPoints(a) ==
  LET len == Len(ZipStream(a))
      around(k) ==
        LET s == ZipBodyStart(a, k)
                 - Len(LocalFileHeader(ZipArchives[a][k]))
            b == ZipBodyStart(a, k)
            e == ZipBodyEnd(a, k)
        IN {s + 4, s + 30, b, e - 1, e, e + 1, e + 4, e + 16}
  IN (UNION {around(k) : k \in 1..Len(ZipArchives[a])}) \cap 1..(len - 1)

ZipSplits(a) ==
  {Lengths(cuts, 0, Len(ZipStream(a))) :
     cuts \in {c \in SUBSET ZipCutPoints(a) : Cardinality(c) <= MaxCuts}}

InitZip ==
  /\ cb = NewChunkBuffer
  /\ call = IdleCall
  /\ hist = ZipHist
  /\ wk = ZipWorker
  /\ ws = NewWritable
  /\ \E a \in 1..Len(ZipArchives) :
       \E split \in ZipSplits(a) :
         src = [kind |-> "zip", arch |-> a, pos |-> 0, rest |-> split,
                cuts |-> Len(split) - 1]
  /\ chans = <<>>
  /\ events = <<>>
  /\ inf = NewInflate

NextZip ==
  \/ SrcWrite
  \/ SrcEnd
  \/ WriteAck
  \/ Timeout
  \/ ChanRead
  \/ ChanResume
  \/ ZipLoop
  \/ ZipSignature
  \/ ZipParseLocalFileHeader
  \/ ZipFeed
  \/ ZipInflated
  \/ ZipEndWait
  \/ ZipDataDescriptor

SpecZip == InitZip /\ [][NextZip]_vars

\* ---------------------------------------------------------- SpecSignatures
\* The Zip decoder on SignatureStreams, the source writing the stream whole
\* or in two chunks, cut anywhere.
InitSignatures ==
  /\ cb = NewChunkBuffer
  /\ call = IdleCall
  /\ hist = ZipHist
  /\ wk = ZipWorker
  /\ ws = NewWritable
  /\ \E a \in (Len(ZipArchives) + 1)..(Len(ZipArchives) + Len(SignatureStreams)) :
       \E cut \in {<<Len(ZipStream(a))>>}
                   \cup {<<c, Len(ZipStream(a)) - c>> :
                           c \in 1..(Len(ZipStream(a)) - 1)} :
         src = [kind |-> "zip", arch |-> a, pos |-> 0, rest |-> cut,
                cuts |-> Len(cut) - 1]
  /\ chans = <<>>
  /\ events = <<>>
  /\ inf = NewInflate

SpecSignatures == InitSignatures /\ [][NextZip]_vars

\* The bytes the worker has taken from the ChunkBuffer so far (as long as
\* nothing was given back or cleaned up).
Consumed == src.pos - cb.size - SumLen(ws.buffered)

\* C25: on a stream whose first 4 bytes are not the local file header's
\* signature the Zip worker emits nothing, and once it has read those 4
\* bytes it has failed on the signature.
C25_BadStartFails ==
  (src.kind = "zip" /\ SubSeq(Stream(src), 1, 4) # <<80, 75, 3, 4>>) =>
    /\ events = <<>>
    /\ chans = <<>>
    /\ wk.pc \in {"loop", "sig", "failed"}
    /\ Consumed > 0 => wk.pc = "failed" /\ wk.err = "signature" /\ Consumed = 4

\* The stream that starts like an executable came in two chunks; the worker
\* failed on its first 4 bytes.
C25_Witness ==
  /\ src.kind = "zip"
  /\ SubSeq(Stream(src), 1, 2) = <<77, 90>>
  /\ src.cuts = 1
  /\ src.rest = <<>>
  /\ wk.pc = "failed"
  /\ wk.err = "signature"
  /\ events = <<>>

\* The step consumes the last part of a local file header: the name when
\* there are no extra fields, else the extra fields, when these parse.
LastOfHeader ==
  /\ src.kind = "zip"
  /\ wk.pc \in {"name", "extra"}
  /\ call.st \in {"start", "woken"}
  /\ consume(cb, call).kind = "ret"
  /\ wk.pc = "name" => wk.raw.extraFieldsTotalSize = 0
  /\ wk.pc = "extra" => extraFields(consume(cb, call).buf, 0, wk.raw).ok

\* C27: the step in which the Zip worker consumes the last part of a local
\* file header is the step that emits the entry event, with a new channel
\* nothing was pushed to; that step takes the header's bytes only, feeds
\* the decompressor nothing, and no other step emits an entry event.
C27_EntryBeforeBody ==
  [][/\ LastOfHeader =>
          /\ Len(events') = Len(events) + 1
          /\ events'[Len(events')].type = "entry"
          /\ events'[Len(events')].ch = Len(chans')
          /\ Len(chans') = Len(chans) + 1
          /\ chans'[Len(chans')] = NewGenericReadable
          /\ cb' = consume(cb, call).cb
          /\ inf' = NewInflate
          /\ wk'.totalWritten = 0
     /\ (/\ src.kind = "zip"
         /\ Len(events') > Len(events)
         /\ events'[Len(events')].type = "entry") => LastOfHeader]_vars

\* The second entry of an archive, one with extra fields, has just been
\* announced: bytes of its body are buffered, nothing of it was consumed.
C27_Witness ==
  /\ src.kind = "zip"
  /\ wk.pc = "feed"
  /\ call.st = "start"
  /\ wk.ch = 2
  /\ wk.raw.extraFieldsTotalSize > 0
  /\ events[Len(events)].type = "entry"
  /\ events[Len(events)].ch = 2
  /\ chans[2] = NewGenericReadable
  /\ inf = NewInflate
  /\ cb.size > 0

\* Where the body of element k of the archive starts in its stream, and the
\* body's length rounded up to whole records.
BodyStart(es, k) == Len(TarEntries(SubSeq(es, 1, k - 1))) + BlockSize
RoundedUp(es, k) ==
  ((Len(es[k].body) + BlockSize - 1) \div BlockSize) * BlockSize

\* C28: while the Tar worker streams the body of an entry, and when it is
\* back at its loop test after it, it has consumed the stream up to the
\* body's start plus ceil(size/512)*512 less what it still has to consume,
\* which is never negative: at the loop test exactly up to the next
\* 512-byte boundary behind the body.
C28_BodyConsumesAligned ==
  (/\ src.kind = "tar"
   /\ wk.pc \in {"body", "pushwait", "pushed", "loop"}
   /\ events # <<>>
   /\ events[Len(events)].ch # 0
   /\ Len(events) <= Len(EntryPositions(AllTarArchives[src.arch], 1)))
  => LET es == AllTarArchives[src.arch]
         k == EntryPositions(es, 1)[Len(events)]
     IN /\ wk.bytesToConsume >= 0
        /\ wk.bytesToConsume <= RoundedUp(es, k)
        /\ Consumed = BodyStart(es, k) + RoundedUp(es, k) - wk.bytesToConsume
        /\ wk.pc = "loop" => wk.bytesToConsume = 0

\* The body of 521 bytes, which came in three chunks, is through: the worker
\* is at its loop test, 512 + 1024 bytes consumed, the rest still buffered.
C28_Witness ==
  /\ src.kind = "tar"
  /\ src.arch = 3
  /\ src.cuts = 2
  /\ wk.pc = "loop"
  /\ Len(events) = 1
  /\ Len(chans[1].got) = 521
  /\ Consumed = 3 * BlockSize
  /\ cb.size + SumLen(ws.buffered) > 0

\* C29: a record the Tar worker gets from _parseHeader's consume that has a
\* non-zero byte is not taken for the end of the archive.
C29_NonZeroNotEnd ==
  [][(/\ src.kind = "tar"
      /\ wk.pc \in {"hdr", "hdr2"}
      /\ call.st \in {"start", "woken"}
      /\ consume(cb, call).kind = "ret"
      /\ consume(cb, call).buf # Zeros(BlockSize))
      => ~wk'.endOfTar /\ wk'.pc # "end"]_vars

\* C30: the step in which the Tar worker emits an entry event whose header
\* has a linkname gives the event no channel, makes none, and takes the
\* worker straight back to its loop test, the header's record being all it
\* consumed; when the header's linkname is null the event has a new
\* channel.
C30_LinkHasNoChannel ==
  [][(src.kind = "tar" /\ Len(events') = Len(events) + 1)
      => LET e == events'[Len(events')]
         IN IF e.header.linkname.t # "null"
            THEN /\ e.ch = 0
                 /\ chans' = chans
                 /\ wk'.pc = "loop"
                 /\ cb' = consume(cb, call).cb
                 /\ Len(consume(cb, call).buf) = BlockSize
            ELSE /\ e.ch = Len(chans')
                 /\ Len(chans') = Len(chans) + 1
                 /\ chans'[Len(chans')] = NewGenericReadable
                 /\ wk'.pc = "body"]_vars

\* The link of the second archive was announced without a channel, and the
\* file behind it with one: the worker read that file's header right behind
\* the link's.
C30_Witness ==
  /\ src.kind = "tar"
  /\ src.arch = 2
  /\ Len(events) = 3
  /\ events[2].header.linkname = Str(<<97>>)
  /\ events[2].ch = 0
  /\ events[3].ch = 2
  /\ Len(chans) = 2

\* C26: the signature the Zip worker reads after the first record decides
\* what follows: a local file header's leads to the parse of that header, a
\* central directory header's ends the worker with no event and nothing
\* further consumed, any other fails it; and the worker leaves its loop in
\* no other way, so every record's signature is read.
C26_SignatureDecides ==
  /\ [][(/\ src.kind = "zip"
          /\ wk.pc = "sig"
          /\ ~wk.startOfFile
          /\ call.st \in {"start", "woken"}
          /\ consume(cb, call).kind = "ret")
          => LET o == consume(cb, call)
             IN CASE o.buf = <<80, 75, 3, 4>> ->
                       wk'.pc = "core" /\ events' = events /\ cb' = o.cb
                  [] o.buf = <<80, 75, 1, 2>> ->
                       wk'.pc = "end" /\ events' = events /\ cb'.size = o.cb.size
                  [] OTHER ->
                       wk'.pc = "failed" /\ wk'.err = "signature"
                       /\ events' = events]_vars
  /\ [](src.kind = "zip" => wk.pc # "exit")


\* The entry the Zip worker is at, as the archive has it.
ZipEntryAtHand == ZipArchives[src.arch][wk.ch]

\* The worker awaits endPromise after the loop of _pipeFileStream, or without
\* having gone through it.
AwaitsEnd == src.kind = "zip" /\ wk.pc = "endwait"

\* C4: when the worker of the Zip decoder, at an entry whose local file header
\* gives a compressedSize, awaits the end of the decompressor, it has written
\* exactly compressedSize bytes to it.
C4_KnownSizeFed ==
  (AwaitsEnd /\ wk.raw.compressedSize # 0)
    => inf.fed = wk.raw.compressedSize

\* The source bytes no consume has returned yet: in the ChunkBuffer, buffered
\* in the Writable, and still to be written.
Unread ==
  Flat(cb.chunks) \o Flat(ws.buffered)
  \o SubSeq(Stream(src), src.pos + 1, Len(Stream(src)))

\* The worker has found the end of the compressed data of an entry of unknown
\* size and has not yet read on.
BodyJustDone ==
  /\ src.kind = "zip"
  /\ hist.bodyDone
  /\ wk.pc \in {"endwait", "dd"}

\* C5: once the end of the compressed data of an entry of unknown size is
\* found, the bytes still to be had from the ChunkBuffer are exactly the
\* source bytes behind the compressed data, none lost and none twice, and
\* cb.size counts those it holds.
C5_SurplusGivenBack ==
  BodyJustDone =>
    /\ Unread = SubSeq(Stream(src), ZipBodyEnd(src.arch, wk.ch) + 1,
                       Len(Stream(src)))
    /\ cb.size = Len(Flat(cb.chunks))

\* The compressed data of the entry at hand ended exactly where a chunk ended:
\* the end was found with the next chunk, all of which was given back; that of
\* an entry before it ended within a chunk.
C5_Witness ==
  /\ BodyJustDone
  /\ hist.atBoundary
  /\ hist.within
  /\ Flat(cb.chunks) = wk.chunk
  /\ wk.pc = "dd"

\* The worker has just read a data descriptor.
DescriptorRead == src.kind = "zip" /\ wk.pc = "loop" /\ hist.dd # "none"

\* C6: after the 16 bytes read for a data descriptor, the 'dataDescriptor'
\* event carries the entry's three fields; with the signature nothing is
\* given back, without it the last 4 of the 16 bytes are, in front of what
\* was buffered behind them.
C6_DescriptorRead ==
  DescriptorRead =>
    /\ events[Len(events)] = DescriptorEvent(DescriptorFields(ZipEntryAtHand))
    /\ hist.dd = "signed" => Flat(cb.chunks) = hist.ddBehind
    /\ hist.dd = "unsigned" =>
         Flat(cb.chunks) = SubSeq(hist.ddBuf, 13, 16) \o hist.ddBehind

\* The archives 1 and 3 hold the same entry, with its sizes in a data
\* descriptor and in the local file header.
SameContentArchives == {1, 3}

\* C7: in the archive with the sizes in the header as in the one with the data
\* descriptor, once the worker awaits the decompressor's end and no push is
\* pending, the fileStream has got the entry's content and one end marker;
\* and a 'dataDescriptor' event carries the archive's values.
C7_KnownAsUnknown ==
  (src.kind = "zip" /\ src.arch \in SameContentArchives) =>
    /\ (AwaitsEnd /\ ~hist.swallowed /\ Drained(wk.ch)) =>
         /\ chans[wk.ch].got = ZipEntryAtHand.content
         /\ chans[wk.ch].ended = 1
    /\ \A i \in 1..Len(events) :
         events[i].type = "dataDescriptor" =>
           events[i].dd = DescriptorFields(ZipArchives[src.arch][1])

\* C17: a stall timeout of the consume in the loop that feeds a body of
\* unknown size ends the worker with an error.
C17_ZipTimeoutFatal ==
  (src.kind = "zip" /\ hist.swallowed) => wk.pc = "failed"

\* C15: as long as _read was never called on the fileStream of the Zip entry
\* at hand, the worker is in _pipeFileStream's loop or awaits the end of the
\* decompressor; it is not at the data descriptor nor at a later record.
C15_ZipStalledConsumer ==
  \A i \in 1..Len(chans) :
    (src.kind = "zip" /\ ~chans[i].demanded) =>
      /\ wk.ch = i
      /\ wk.pc \in {"feed", "inflating", "endwait", "failed"}

\* -------------------------------------------------------------- SpecDecode
\* Either decoder, on its test archives.
InitDecode == InitTar \/ InitZip

NextDecode ==
  \/ SrcWrite
  \/ SrcEnd
  \/ WriteAck
  \/ Timeout
  \/ ChanRead
  \/ ChanResume
  \/ src.kind = "tar" /\ TarLoop
  \/ TarParseHeader
  \/ TarParsePaxEntries
  \/ TarBody
  \/ TarPushed
  \/ src.kind = "zip" /\ ZipLoop
  \/ ZipSignature
  \/ ZipParseLocalFileHeader
  \/ ZipFeed
  \/ ZipInflated
  \/ ZipEndWait
  \/ ZipDataDescriptor

SpecDecode == InitDecode /\ [][NextDecode]_vars

\* C13: on every fileStream the items handed to Readable.push are, in order,
\* the first of the push calls made, awaited or not; the end marker is handed
\* over at most once, nothing after it, and once every push call has gone
\* through it was handed over exactly as often as it was pushed, which is
\* once at most.
C13_PushOrder ==
  \A i \in 1..Len(chans) :
    LET ch == chans[i]
        nulls(items) == Cardinality({j \in 1..Len(items) : items[j].eof})
    IN /\ IsPrefix(ch.out, ch.called)
       /\ Len(ch.called) = Len(ch.out) + Len(ch.pend) + Len(ch.ready)
       /\ ch.ended = nulls(ch.out)
       /\ nulls(ch.called) <= 1
       /\ ~ch.late
       /\ \A j \in 1..Len(ch.out) : ch.out[j].eof => j = Len(ch.out)
       /\ ch.got = Flat([j \in 1..Len(ch.out) |-> ch.out[j].data])

\* Two pushes of different bytes and the push of the end marker, none of them
\* awaited, were suspended and have all gone through.
C13_Witness ==
  \E i \in 1..Len(chans) :
    /\ Len(chans[i].out) = 3
    /\ chans[i].out = chans[i].called
    /\ \A j \in 1..3 : ~chans[i].out[j].awaited
    /\ chans[i].out[1].data # chans[i].out[2].data
    /\ chans[i].ended = 1

\* C36: a Buffer is handed to Readable.push only while the fileStream has no
\* wait promise set, that is after a _read that no delivery answered by
\* "needs to be drained" has followed: never before the first _read, never
\* between such a delivery and the next _read.
C36_NoDeliveryWithoutDemand ==
  [][\A i \in 1..Len(chans) :
       (/\ Len(chans'[i].out) = Len(chans[i].out) + 1
        /\ ~chans'[i].out[Len(chans'[i].out)].eof)
         => ~chans[i].wait]_vars

\* C16: when the source ends (end() is called from its 'end' handler) while
\* the worker is suspended in consume, that step wakes the worker and leaves
\* the ChunkBuffer empty with no acknowledgement held.
C16_EndWakes ==
  [][(~ws.ended /\ ws'.ended /\ call.st = "wait")
       => (call'.st = "woken" /\ cb'.size = 0 /\ cb'.callbacks = 0)]_vars

\* C18: once the worker has failed, the decoder does not finish as a Writable
\* without being in an error state.
C18_FailureReported ==
  (wk.pc = "failed" /\ writableFinished(ws)) => ws.errored

\* ------------------------------------------------------------------ SpecCB
ChunkLens == 0..MaxChunkLen

\* The next bytes of the source: 1, 2, 3, ... so that their order shows.
Fresh(from, len) == [i \in 1..len |-> (from + i) % 256]

InitCB ==
  /\ cb = NewChunkBuffer
  /\ call = IdleCall
  /\ hist = InitHist
  /\ wk = NoWorker
  /\ ws = NewWritable
  /\ src = NoSource
  /\ chans = <<>>
  /\ events = <<>>
  /\ inf = NewInflate

\* The byte source calls push with one or two chunks.
CBPush ==
  \E l1 \in ChunkLens, l2 \in ChunkLens \cup {-1} :
    LET n == Len(hist.pushed)
        c1 == Fresh(n, l1)
        cs == IF l2 < 0 THEN <<c1>> ELSE <<c1, Fresh(n + l1, l2)>>
    IN /\ n + SumLen(cs) <= MaxPushBytes
       /\ hist.pushes < MaxPushes
       /\ cb' = push(cb, cs)
       /\ call' = Wake(call)
       /\ hist' = [hist EXCEPT !.pushed = @ \o Flat(cs),
                               !.pushes = @ + 1,
                               !.op = [NoOp EXCEPT !.name = "push"]]

\* What the outcome o of the consume call c does to the state.
CBOutcome(o, c) ==
  /\ cb' = o.cb
  /\ call' = o.call
  /\ hist' = IF o.kind = "ret"
             THEN [hist EXCEPT !.consumed = @ \o o.buf,
                               !.last = o.buf,
                               !.op = [NoOp EXCEPT !.name = "consume",
                                         !.given = o.buf,
                                         !.pre = o.buf \o Flat(o.cb.chunks),
                                         !.preSize = Len(o.buf) + o.cb.size,
                                         !.wanted = c.n,
                                         !.before = cb.chunks,
                                         !.waited = c.st # "start"]]
             ELSE [hist EXCEPT !.op = [NoOp EXCEPT !.name = o.kind]]

\* The caller calls consume(n, undefined, thr).
CBConsume ==
  \E n \in 0..MaxWanted, thr \in BOOLEAN :
    /\ call.st = "idle"
    /\ CBOutcome(consume(cb, StartCall(n, thr)), StartCall(n, thr))

\* The suspended consume goes on after its promise or its timer resolved.
CBResume ==
  /\ call.st \in {"woken", "timedout"}
  /\ CBOutcome(consume(cb, call), call)

\* No chunk arrived within the stall window.
CBTimeout ==
  /\ call.st = "wait"
  /\ call' = [call EXCEPT !.st = "timedout"]
  /\ UNCHANGED <<cb, hist>>

\* The caller gives back the Buffer it consumed last, or its last k bytes.
CBGiveBack ==
  \E k \in 0..MaxWanted :
    /\ call.st = "idle"
    /\ hist.last # <<>>
    /\ k <= Len(hist.last)
    /\ hist.gives < MaxGiveBacks
    /\ cb' = giveBack(cb, hist.last, k)
    /\ call' = call
    /\ hist' = [hist EXCEPT
         !.other = TRUE,
         !.gives = @ + 1,
         !.op = [NoOp EXCEPT
                 !.name = "giveBack",
                 !.given = giveBackLeftovers(hist.last, k),
                 !.pre = Flat(cb.chunks),
                 !.preSize = cb.size,
                 !.roundTrip = hist.op.name = "consume" /\ k = 0,
                 !.was = IF hist.op.name = "consume" /\ k = 0
                         THEN hist.op.pre ELSE <<>>]]

CBCleanup ==
  /\ call.st = "idle"
  /\ cb.size > 0
  /\ cb' = cleanup(cb)
  /\ call' = call
  /\ hist' = [hist EXCEPT !.other = TRUE, !.op = [NoOp EXCEPT !.name = "cleanup"]]

NextCB ==
  /\ CBPush \/ CBConsume \/ CBResume \/ CBTimeout \/ CBGiveBack \/ CBCleanup
  /\ UNCHANGED decoderVars

SpecCB == InitCB /\ [][NextCB]_vars

\* C32: a suspended consume waits on the one wait promise of the
\* ChunkBuffer; a push leaves no promise set, wakes the consume that is
\* suspended, and changes nothing of a call when it finds no promise set or
\* a call already woken.
C32_OneWait ==
  /\ [](call.st = "wait" => cb.waitPromise)
  /\ [][hist'.pushes = hist.pushes + 1
         => /\ ~cb'.waitPromise
            /\ call.st = "wait" => call'.st = "woken"
            /\ (~cb.waitPromise \/ call.st # "wait") => call' = call]_vars

\* A push has woken the suspended consume and a second push, which found no
\* promise set, has left it as it was: woken once, not yet gone on.
C32_Witness ==
  /\ call.st = "woken"
  /\ hist.op.name = "push"
  /\ hist.pushes = 2
  /\ ~cb.waitPromise
  /\ Len(cb.chunks) >= 2

\* C35: a consume called with throwOnTimeout that ends on a timeout ends
\* with a raised error, never with the sentinel false.
C35_TimeoutThrows ==
  [][(call.st = "timedout" /\ call.asked /\ call'.st = "idle")
       => hist'.op.name = "throw"]_vars

\* ---------------------------------------------------------------- SpecWait
\* push and consume alone, with the history kept to the last operation's name.
WaitOutcome(o) ==
  /\ cb' = o.cb
  /\ call' = o.call
  /\ hist' = [hist EXCEPT
       !.op = [NoOp EXCEPT !.name = IF o.kind = "ret" THEN "consume"
                                    ELSE o.kind]]

\* The caller calls consume(n, undefined, thr).
WaitConsume ==
  \E n \in 0..MaxWanted, thr \in BOOLEAN :
    /\ call.st = "idle"
    /\ WaitOutcome(consume(cb, StartCall(n, thr)))

\* The suspended consume goes on after its promise or its timer resolved.
WaitResume ==
  /\ call.st \in {"woken", "timedout"}
  /\ WaitOutcome(consume(cb, call))

NextWait ==
  /\ CBPush \/ WaitConsume \/ WaitResume \/ CBTimeout
  /\ UNCHANGED decoderVars

\* The timer of racePromisesWithTimeout fires unless it is cleared, and a
\* resolved promise's continuation runs.
SpecWait ==
  /\ InitCB
  /\ [][NextWait]_vars
  /\ WF_vars(CBTimeout /\ UNCHANGED decoderVars)
  /\ WF_vars(WaitResume /\ UNCHANGED decoderVars)

\* C8: with push and consume only, the bytes consume returned so far followed
\* by the bytes still buffered are the bytes pushed so far, in push order.
C8_Conservation ==
  ~hist.other => hist.consumed \o Flat(cb.chunks) = hist.pushed

\* A consume has just returned bytes of two pushed chunks as one Buffer and
\* left a remainder buffered.
C8_Witness ==
  /\ ~hist.other
  /\ hist.op.name = "consume"
  /\ hist.pushes = 2
  /\ Len(hist.op.given) = 2
  /\ cb.size = 1
  /\ hist.pushed = <<1, 2, 3>>

\* C11: a consume that returns a Buffer returns, for n > 0, exactly the first
\* n of the at least n bytes buffered, as one Buffer, and leaves the rest
\* buffered in order; for n = 0 it returns all the bytes buffered, of which
\* there is at least one, and leaves none.  A consume that is suspended has
\* fewer than n bytes buffered, or none for n = 0.
C11_ConsumeReturns ==
  /\ hist.op.name = "consume" =>
        LET n == hist.op.wanted
            had == Flat(hist.op.before)
            m == IF n = 0 THEN Len(had) ELSE n
        IN /\ Len(had) >= m
           /\ m > 0
           /\ hist.op.given = SubSeq(had, 1, m)
           /\ Flat(cb.chunks) = SubSeq(had, m + 1, Len(had))
           /\ cb.size = Len(had) - m
  /\ call.st = "wait" =>
        IF call.n = 0 THEN cb.size = 0 ELSE cb.size < call.n

\* A consume(2) that had to wait has returned the bytes of two chunks as one
\* Buffer and left the third byte buffered.
C11_Witness ==
  /\ hist.op.name = "consume"
  /\ hist.op.waited
  /\ hist.op.wanted = 2
  /\ Len(hist.op.before) = 2
  /\ hist.op.given = <<1, 2>>
  /\ Flat(cb.chunks) = <<3>>

\* C12: a suspended consume does not stay suspended: with no push its timer
\* fires and it completes; and a consume that no push has woken completes on
\* its timeout by throwing when throwOnTimeout is set, by returning false
\* otherwise.
C12_TimeoutCompletes ==
  /\ (call.st = "wait") ~> (call.st = "idle")
  /\ [][(call.st = "timedout" /\ ~call.inner /\ call'.st = "idle")
          => hist'.op.name = IF call.thr THEN "throw" ELSE "false"]_vars

\* A consume with throwOnTimeout, suspended on an empty buffer that nothing
\* was pushed into, has thrown.
C12_Witness ==
  /\ hist.op.name = "throw"
  /\ hist.pushes = 0
  /\ call.st = "idle"

\* C9: consume(n) immediately followed by giveBack of the returned Buffer
\* leaves the buffered bytes and size as they were before the consume.
C9_RoundTrip ==
  hist.op.roundTrip =>
    /\ Flat(cb.chunks) = hist.op.was
    /\ cb.size = Len(hist.op.was)

\* C10: giveBack puts the given-back bytes in front of the bytes that were
\* buffered, which stay, and size grows by the number of bytes given back.
C10_GiveBackFront ==
  hist.op.name = "giveBack" =>
    /\ Flat(cb.chunks) = hist.op.given \o hist.op.pre
    /\ cb.size = hist.op.preSize + Len(hist.op.given)

\* ---------------------------------------------------------------- FindBytes
\* FindBytes.look(byte) with the finder at index: the index it leaves and
\* whether it reports the sequence found.
look(bytesToFind, index, byte) ==
  IF byte = bytesToFind[index + 1]
  THEN IF index + 1 = Len(bytesToFind)
       THEN [index |-> 0, found |-> TRUE]
       ELSE [index |-> index + 1, found |-> FALSE]
  ELSE [index |-> 0, found |-> FALSE]

RECURSIVE scan(_, _, _, _)
\* Lines 344-353, the for loop over one chunk from chunkOffset on: whether
\* look reported a match, the chunkOffset behind the matching byte, and the
\* finder's index.
scan(bytesToFind, index, chunk, chunkOffset) ==
  IF chunkOffset >= Len(chunk)
  THEN [found |-> FALSE, offset |-> Len(chunk), index |-> index]
  ELSE LET l == look(bytesToFind, index, chunk[chunkOffset + 1])
       IN IF l.found
          THEN [found |-> TRUE, offset |-> chunkOffset + 1, index |-> l.index]
          ELSE scan(bytesToFind, l.index, chunk, chunkOffset + 1)

\* ------------------------------------------------- consumeUntilSignature
\* shiftChunk that leaves the size as it is.
shiftChunk_uncounted(b) == [b EXCEPT !.chunks = Tail(@)]

\* Lines 342-343: the first chunk is taken off the list.
shiftChunk(b) ==
  [b EXCEPT !.chunks = Tail(@), !.size = @ - Len(Head(b.chunks))]

\* One consumeUntilSignature call (kept in wk).  pc: "none" no call; "wait"
\* suspended in _waitForMore; "woken", "timedout" its promise, its timer
\* resolved; "onChunk" suspended in the await of onChunk; "returned";
\* "thrown".  index: the finder's; last: the chunk handed to onChunk ends
\* with the match.
NoUntil ==
  [pc |-> "none", signatureBytes |-> <<>>, thr |-> FALSE, index |-> 0,
   consumedBytes |-> 0, last |-> FALSE]

\* Lines 341-356, the while loop from its test to its next await: the
\* ChunkBuffer and the call afterwards, and the chunks handed to onChunk.
untilLoop(b, u) ==
  IF Len(b.chunks) = 0
  THEN [cb |-> b, u |-> [u EXCEPT !.pc = "returned"], given |-> <<>>]
  ELSE LET chunk == Head(b.chunks)
           shifted == shiftChunk(b)
           s == scan(u.signatureBytes, u.index, chunk, 0)
           leftovers == subarray(chunk, s.offset, Len(chunk))
       IN IF s.found
          THEN [cb |-> [shifted EXCEPT !.chunks = <<leftovers>>,
                                       !.size = Len(leftovers)],
                u |-> [u EXCEPT !.pc = "onChunk", !.last = TRUE,
                                !.index = s.index,
                                !.consumedBytes = @ + s.offset],
                given |-> <<subarray(chunk, 0, s.offset)>>]
          ELSE [cb |-> shifted,
                u |-> [u EXCEPT !.pc = "onChunk", !.index = s.index,
                                !.consumedBytes = @ + Len(chunk)],
                given |-> <<chunk>>]

\* Lines 340 and 358: with no chunk in the list the call waits for more.
untilWait(b, u) ==
  IF Len(b.chunks) = 0
  THEN [cb |-> waitForMore(b), u |-> [u EXCEPT !.pc = "wait"], given |-> <<>>]
  ELSE untilLoop(b, u)

\* A push or giveBack resolves the promise the call is suspended on.
WakeUntil(u) == IF u.pc = "wait" THEN [u EXCEPT !.pc = "woken"] ELSE u

\* -------------------------------------------------------------- SpecUntil
\* The ChunkBuffer with a caller of consumeUntilSignature and of consume, a
\* source that pushes UntilStream in chunks of any length, and an onChunk
\* that may give back what it got.
UntilStream == <<1, 1, 2, 2, 1>>
Signatures == {<<1, 2>>, <<1>>}

\* The next len bytes of the source's stream.
UntilBytes(len) ==
  SubSeq(UntilStream, src.pos + 1, src.pos + len)

\* hist of SpecUntil.  stream: the bytes buffered when the call started and
\* those pushed since; delivered: the chunks handed to onChunk; clean: no
\* giveBack and no cleanup since the call started.
UntilHist ==
  [pushes |-> 0, gives |-> 0, stream |-> <<>>, delivered |-> <<>>,
   clean |-> TRUE]

InitUntil ==
  /\ cb = NewChunkBuffer
  /\ call = IdleCall
  /\ hist = UntilHist
  /\ wk = NoUntil
  /\ ws = NewWritable
  /\ src = NoSource
  /\ chans = <<>>
  /\ events = <<>>
  /\ inf = NewInflate

UntilRunning == wk.pc \in {"wait", "woken", "timedout", "onChunk"}

\* What the outcome o of a run of the call does to the state.
UntilOutcome(o) ==
  /\ cb' = o.cb
  /\ wk' = o.u
  /\ hist' = [hist EXCEPT !.delivered = @ \o o.given]
  /\ call' = call

\* The source pushes one or two chunks.
UntilPush ==
  /\ \E l1 \in ChunkLens, l2 \in ChunkLens \cup {-1} :
       LET c1 == UntilBytes(l1)
           cs == IF l2 < 0 THEN <<c1>>
                 ELSE <<c1, SubSeq(UntilBytes(l1 + l2), l1 + 1, l1 + l2)>>
           len == IF l2 < 0 THEN l1 ELSE l1 + l2
       IN /\ src.pos + len <= MaxPushBytes
          /\ src.pos + len <= Len(UntilStream)
          /\ hist.pushes < MaxPushes
          /\ cb' = push(cb, cs)
          /\ call' = Wake(call)
          /\ wk' = WakeUntil(wk)
          /\ src' = [src EXCEPT !.pos = @ + SumLen(cs)]
          /\ hist' = [hist EXCEPT !.pushes = @ + 1,
                                  !.stream = @ \o Flat(cs)]
  /\ UNCHANGED <<ws, chans, events, inf>>

\* The caller calls consumeUntilSignature(signatureBytes, onChunk,
\* undefined, thr): lines 338-340 and the loop up to its first await.
UntilCall ==
  /\ \E signatureBytes \in Signatures, thr \in BOOLEAN :
       /\ ~UntilRunning
       /\ call.st = "idle"
       /\ LET u == [NoUntil EXCEPT !.signatureBytes = signatureBytes,
                                   !.thr = thr]
              o == untilWait(cb, u)
          IN /\ cb' = o.cb
             /\ wk' = o.u
             /\ call' = call
             /\ hist' = [hist EXCEPT !.stream = Flat(cb.chunks),
                                     !.delivered = o.given,
                                     !.clean = TRUE]
  /\ UNCHANGED <<ws, src, chans, events, inf>>

\* onChunk is done: the call returns after the match, else waits for more
\* or goes through its loop again.
UntilDelivered ==
  /\ wk.pc = "onChunk"
  /\ IF wk.last
     THEN UntilOutcome([cb |-> cb, u |-> [wk EXCEPT !.pc = "returned"],
                        given |-> <<>>])
     ELSE UntilOutcome(untilWait(cb, wk))
  /\ UNCHANGED <<ws, src, chans, events, inf>>

\* The call goes on after _waitForMore: a timeout is thrown with
\* throwOnTimeout, else the loop test follows.
UntilResume ==
  /\ wk.pc \in {"woken", "timedout"}
  /\ IF wk.pc = "timedout" /\ wk.thr
     THEN UntilOutcome([cb |-> cb, u |-> [wk EXCEPT !.pc = "thrown"],
                        given |-> <<>>])
     ELSE UntilOutcome(untilLoop(cb, wk))
  /\ UNCHANGED <<ws, src, chans, events, inf>>

\* No chunk arrived within the stall window.
UntilTimeout ==
  /\ \/ wk.pc = "wait" /\ wk' = [wk EXCEPT !.pc = "timedout"] /\ call' = call
     \/ call.st = "wait" /\ call' = [call EXCEPT !.st = "timedout"] /\ wk' = wk
  /\ UNCHANGED <<cb, hist, ws, src, chans, events, inf>>

\* onChunk gives back the chunk it got, or its last k bytes.
UntilGiveBack ==
  /\ \E k \in ChunkLens :
       /\ wk.pc = "onChunk"
       /\ hist.gives < MaxGiveBacks
       /\ LET chunk == hist.delivered[Len(hist.delivered)]
          IN /\ k <= Len(chunk)
             /\ cb' = giveBack(cb, chunk, k)
       /\ hist' = [hist EXCEPT !.gives = @ + 1, !.clean = FALSE]
  /\ UNCHANGED <<call, wk, ws, src, chans, events, inf>>

UntilCleanup ==
  /\ wk.pc \in {"onChunk", "returned"}
  /\ call.st = "idle"
  /\ cb.size > 0
  /\ cb' = cleanup(cb)
  /\ hist' = [hist EXCEPT !.clean = FALSE]
  /\ UNCHANGED <<call, wk, ws, src, chans, events, inf>>

\* The caller, its consumeUntilSignature having returned, calls consume for
\* any amount or for as many bytes as the signature has, and that call goes
\* on after its wait.
UntilConsume ==
  /\ wk.pc = "returned"
  /\ \/ \E n \in {0, Len(wk.signatureBytes)} :
          /\ call.st = "idle"
          /\ cb' = consume(cb, StartCall(n, FALSE)).cb
          /\ call' = consume(cb, StartCall(n, FALSE)).call
     \/ /\ call.st \in {"woken", "timedout"}
        /\ cb' = consume(cb, call).cb
        /\ call' = consume(cb, call).call
  /\ hist' = [hist EXCEPT !.clean = FALSE]
  /\ UNCHANGED <<wk, ws, src, chans, events, inf>>

NextUntil ==
  \/ UntilPush
  \/ UntilCall
  \/ UntilDelivered
  \/ UntilResume
  \/ UntilTimeout
  \/ UntilGiveBack
  \/ UntilCleanup
  \/ UntilConsume

SpecUntil == InitUntil /\ [][NextUntil]_vars

\* C31: the ChunkBuffer's size is the sum of the lengths of its chunks, in
\* every state: between the operations and at every await inside consume and
\* consumeUntilSignature.
C31_SizeIsSum == cb.size = SumLen(cb.chunks)

\* consumeUntilSignature is suspended in onChunk with the chunk that ends
\* with the match; what followed the match in that chunk and a chunk pushed
\* since are buffered.
C31_Witness ==
  /\ wk.pc = "onChunk"
  /\ wk.last
  /\ Len(cb.chunks) = 2
  /\ cb.size = 2
  /\ Len(cb.chunks[1]) = 1

\* The positions in bytes at which an occurrence of signature ends.
MatchEnds(signature, bytes) ==
  {e \in Len(signature)..Len(bytes) :
     SubSeq(bytes, e - Len(signature) + 1, e) = signature}

\* C33: a consumeUntilSignature that returns after a match, with no giveBack
\* and no cleanup meanwhile, has handed to onChunk bytes that end with the
\* signature, returns their number, and what it handed over followed by what
\* is buffered is what was buffered when it was called followed by what was
\* pushed since.
C33_DeliversUpToMatch ==
  (wk.pc = "returned" /\ wk.last /\ hist.clean) =>
    LET given == Flat(hist.delivered)
    IN /\ Len(given) \in MatchEnds(wk.signatureBytes, given)
       /\ wk.consumedBytes = Len(given)
       /\ given \o Flat(cb.chunks) = hist.stream

\* C34: as soon as the bytes the finder of a consumeUntilSignature call has
\* looked at hold the signature, the call has its match, and it ends where
\* the first occurrence of the signature ends.
C34_FirstOccurrence ==
  wk.pc # "none" =>
    LET given == Flat(hist.delivered)
        ends == MatchEnds(wk.signatureBytes, given)
    IN ends # {} => /\ wk.last
                    /\ \A e \in ends : Len(given) <= e

====
